---- MODULE Spec2Model ----
(***************************************************************************)
(* html2figma: the regex-based HTML parser, the CSS cascade, the style     *)
(* value interpreter and the node factory, with parseHtml driving them.    *)
(*                                                                         *)
(* A JavaScript string is modelled as a sequence of tokens.  A token is a  *)
(* single character ("<", ">", "/", ":", ...) or an indivisible run of     *)
(* word characters ("div", "color", "hello"): the regular expressions of   *)
(* the source only ever ask of a character whether it is a word character, *)
(* whitespace, or one particular punctuation mark, so a run of word        *)
(* characters behaves as one \w character.                                 *)
(***************************************************************************)
EXTENDS Integers, Sequences, FiniteSets, TLC

VARIABLES
    html,        \* msg.htmlContent of the parse-html message
    pc,          \* where the handler stands: "idle", "analysing" (parseHtml waits
                 \* for the analysis it awaits), "done", or "closed"
    parsedElements, \* parseHtml's parsedElements
    throwing,    \* the elements (by path) whose Figma node creation throws
    result,      \* the HtmlParseResult returned by parseHtml
    page,        \* figma.currentPage.children, in append order
    posted,      \* the messages posted to the UI, in order
    elem,        \* cascade: the SimpleElement styled
    cssStyles,   \* cascade: the selector -> properties table
    combined,    \* cascade: the result of applyCssStyles
    text,        \* style values: the string given to a value parser
    parsed,      \* style values: what the parser returned
    aiSettings,  \* msg.aiSettings of the parse-html message
    aiAnalyzer,  \* the AIAnalyzer: its config (the aiConfig of main.ts), its
                 \* cache, and the requests it called the external API for
    designAnalysis  \* parseHtml's designAnalysis

vars == <<html, pc, parsedElements, throwing, result, page, posted,
          elem, cssStyles, combined, text, parsed,
          aiSettings, aiAnalyzer, designAnalysis>>

-----------------------------------------------------------------------------
(* Strings as token sequences *)

Empty == <<>>

WS == {" ", "\n", "\t"}

NonWord == WS \cup {"<", ">", "/", "=", "\"", "'", "-", ":", ";", ".", "#", "*",
                    "!", "(", ")", ",", "%", "{", "}"}

Upper == <<"A", "B", "C", "D", "E", "F", "G", "H", "I", "J", "K", "L", "M",
           "N", "O", "P", "Q", "R", "S", "T", "U", "V", "W", "X", "Y", "Z">>

Lower == <<"a", "b", "c", "d", "e", "f", "g", "h", "i", "j", "k", "l", "m",
           "n", "o", "p", "q", "r", "s", "t", "u", "v", "w", "x", "y", "z">>

LowerTok(c) ==
    IF c = "DIV" THEN "div"
    ELSE IF c = "BODY" THEN "body"
    ELSE IF \E k \in DOMAIN Upper : Upper[k] = c
    THEN Lower[CHOOSE k \in DOMAIN Upper : Upper[k] = c]
    ELSE c

toLowerCase(s) == [k \in DOMAIN s |-> LowerTok(s[k])]

StartsWithAt(s, i, pat) ==
    /\ i >= 1
    /\ i + Len(pat) - 1 <= Len(s)
    /\ \A k \in 1..Len(pat) : s[i + k - 1] = pat[k]

\* String.prototype.indexOf from position i (1-based); 0 when absent
RECURSIVE IndexOfFrom(_, _, _)
IndexOfFrom(s, pat, i) ==
    IF i + Len(pat) - 1 > Len(s) THEN 0
    ELSE IF StartsWithAt(s, i, pat) THEN i
    ELSE IndexOfFrom(s, pat, i + 1)

includes(s, pat) == IndexOfFrom(s, pat, 1) # 0

startsWith(s, pat) == StartsWithAt(s, 1, pat)

\* A character class is a set of tokens taken positively (in = TRUE, [...])
\* or negatively (in = FALSE, [^...]); RunLen is the length of the longest
\* run of tokens of the class that starts at i
RECURSIVE RunLen(_, _, _, _)
RunLen(s, i, set, in) ==
    IF i < 1 \/ i > Len(s) \/ (s[i] \in set) # in THEN 0
    ELSE 1 + RunLen(s, i + 1, set, in)

\* the same, backwards from i
RECURSIVE RunLenBack(_, _, _, _)
RunLenBack(s, i, set, in) ==
    IF i < 1 \/ i > Len(s) \/ (s[i] \in set) # in THEN 0
    ELSE 1 + RunLenBack(s, i - 1, set, in)

\* String.prototype.trim
trim(s) ==
    LET lead == RunLen(s, 1, WS, TRUE)
        trail == RunLenBack(s, Len(s), WS, TRUE)
    IN  IF lead = Len(s) THEN Empty ELSE SubSeq(s, lead + 1, Len(s) - trail)

\* String.prototype.split on a one-character separator
RECURSIVE split(_, _)
split(s, sep) ==
    LET i == IndexOfFrom(s, <<sep>>, 1)
    IN  IF i = 0 THEN <<s>>
        ELSE <<SubSeq(s, 1, i - 1)>> \o split(SubSeq(s, i + 1, Len(s)), sep)

\* s.replace(/open[\s\S]*?close/g, ''), the tokens compared case-insensitively
\* when ci is set
RECURSIVE StripBlocks(_, _, _, _)
StripBlocks(s, open, close, ci) ==
    LET t == IF ci THEN toLowerCase(s) ELSE s
        i == IndexOfFrom(t, open, 1)
        j == IF i = 0 THEN 0 ELSE IndexOfFrom(t, close, i + Len(open))
    IN  IF j = 0 THEN s
        ELSE SubSeq(s, 1, i - 1)
               \o StripBlocks(SubSeq(s, j + Len(close), Len(s)), open, close, ci)

-----------------------------------------------------------------------------
(* HtmlParser: the tag scanner *)

NoMatch == [found |-> FALSE]

\* /<(\w+)([^>]*?)(?:\s*\/\s*>|>([\s\S]*?)<\/\1>)/ at position i with a name of
\* n tokens.  The attribute text cannot hold a ">", so both alternatives end
\* their tag at g, the first ">" after the name.  The lazy attribute text is
\* as short as it can be: it stops before the \s*\/\s* that leads to g when
\* there is one (the self-closing alternative), and at g otherwise, where the
\* content then runs lazily to the first closing tag of the same name.
tagRegexWithName(s, i, n) ==
    LET a0 == i + 1 + n                                     \* where the attribute text starts
        g == a0 + RunLen(s, a0, {">"}, FALSE)               \* the first ">"
        slash == g - 1 - RunLenBack(s, g - 1, WS, TRUE)     \* the "/" of \s*\/\s*>
        lead == RunLenBack(s, slash - 1, WS, TRUE)
        j == IF slash - lead < a0 THEN a0 ELSE slash - lead \* where \s*\/\s*> starts
        name == SubSeq(s, i + 1, i + n)
        close == IndexOfFrom(s, <<"<", "/">> \o name \o <<">">>, g + 1)
    IN  IF g > Len(s) THEN NoMatch
        ELSE IF slash >= a0 /\ s[slash] = "/"
        THEN [found |-> TRUE, name |-> name, attrs |-> SubSeq(s, a0, j - 1),
              content |-> Empty, last |-> g]
        ELSE IF close # 0
        THEN [found |-> TRUE, name |-> name, attrs |-> SubSeq(s, a0, g - 1),
              content |-> SubSeq(s, g + 1, close - 1), last |-> close + 2 + n]
        ELSE NoMatch

\* the name is greedy: the longest run of word tokens first, then shorter ones
RECURSIVE tagRegexBacktrack(_, _, _)
tagRegexBacktrack(s, i, n) ==
    IF n < 1 THEN NoMatch
    ELSE LET m == tagRegexWithName(s, i, n)
         IN  IF m.found THEN m ELSE tagRegexBacktrack(s, i, n - 1)

tagRegexAt(s, i) ==
    IF i <= Len(s) /\ s[i] = "<"
    THEN tagRegexBacktrack(s, i, RunLen(s, i + 1, NonWord, FALSE))
    ELSE NoMatch

\* tagRegex.exec with lastIndex = from - 1: the leftmost position that matches
RECURSIVE tagRegexExec(_, _)
tagRegexExec(s, from) ==
    LET i == IndexOfFrom(s, <<"<">>, from)
        m == tagRegexAt(s, i)
    IN  IF i = 0 THEN NoMatch
        ELSE IF m.found THEN m
        ELSE tagRegexExec(s, i + 1)

Quotes == {"\"", "'"}

\* one attempt of /(\w+)(?:\s*=\s*["']([^"']*)["'])?/ at a word token i
attrRegexAt(s, i) ==
    LET n == RunLen(s, i, NonWord, FALSE)
        e == i + n + RunLen(s, i + n, WS, TRUE)                \* the "="
        q == e + 1 + RunLen(s, e + 1, WS, TRUE)                \* the opening quote
        r == q + 1 + RunLen(s, q + 1, Quotes, FALSE)           \* the closing quote
        hasValue == /\ e <= Len(s) /\ s[e] = "="
                    /\ q <= Len(s) /\ s[q] \in Quotes
                    /\ r <= Len(s) /\ s[r] \in Quotes
    IN  IF hasValue
        THEN [name |-> SubSeq(s, i, i + n - 1), value |-> SubSeq(s, q + 1, r - 1), last |-> r]
        ELSE [name |-> SubSeq(s, i, i + n - 1), value |-> Empty, last |-> i + n - 1]

Put(map, key, value) ==
    [k \in DOMAIN map \cup {key} |-> IF k = key THEN value ELSE map[k]]

EmptyMap == [k \in {} |-> Empty]

RECURSIVE parseAttributesFrom(_, _, _)
parseAttributesFrom(s, from, attributes) ==
    LET i == from + RunLen(s, from, NonWord, TRUE)      \* the next word token
        m == attrRegexAt(s, i)
    IN  IF i > Len(s) THEN attributes
        ELSE parseAttributesFrom(s, m.last + 1, Put(attributes, m.name, m.value))

parseAttributes(attributesStr) == parseAttributesFrom(attributesStr, 1, EmptyMap)

\* html.replace(/<[^>]*>/g, '').trim()
RECURSIVE StripTags(_)
StripTags(s) ==
    LET i == IndexOfFrom(s, <<"<">>, 1)
        j == IF i = 0 THEN 0 ELSE IndexOfFrom(s, <<">">>, i + 1)
    IN  IF j = 0 THEN s
        ELSE SubSeq(s, 1, i - 1) \o StripTags(SubSeq(s, j + 1, Len(s)))

extractTextContent(s) == trim(StripTags(s))

RECURSIVE parseElementsFrom(_, _)
parseElementsFrom(s, from) ==
    LET m == tagRegexExec(s, from)
    IN  IF ~m.found THEN <<>>
        ELSE
          LET tagName == toLowerCase(m.name)
              element == [tagName |-> tagName,
                          attributes |-> parseAttributes(m.attrs),
                          textContent |-> extractTextContent(m.content),
                          children |-> parseElementsFrom(m.content, 1)]
          IN  (IF tagName \in {<<"script">>, <<"style">>} THEN <<>> ELSE <<element>>)
                \o parseElementsFrom(s, m.last + 1)

parseElements(s) == parseElementsFrom(s, 1)

-----------------------------------------------------------------------------
(* HtmlParser: the CSS rule extractor.  A selector -> properties object is  *)
(* a sequence of [selector, properties] entries with distinct selectors, in *)
(* the insertion order that for..in enumerates.                             *)

Has(styles, selector) == \E k \in DOMAIN styles : styles[k].selector = selector

Get(styles, selector) ==
    styles[CHOOSE k \in DOMAIN styles : styles[k].selector = selector].properties

\* a table that lays the declarations of a rule over those it holds for the
\* selector
StoreMerged(styles, selector, properties) ==
    IF Has(styles, selector)
    THEN [k \in DOMAIN styles |->
            IF styles[k].selector = selector
            THEN [selector |-> selector,
                  properties |-> [p \in DOMAIN styles[k].properties \cup DOMAIN properties |->
                                     IF p \in DOMAIN properties THEN properties[p]
                                     ELSE styles[k].properties[p]]]
            ELSE styles[k]]
    ELSE Append(styles, [selector |-> selector, properties |-> properties])

\* styles[selector] = properties
Store(styles, selector, properties) ==
    IF Has(styles, selector)
    THEN [k \in DOMAIN styles |->
            IF styles[k].selector = selector
            THEN [selector |-> selector, properties |-> properties]
            ELSE styles[k]]
    ELSE Append(styles, [selector |-> selector, properties |-> properties])

\* Object.assign(target, source)
Assign(target, source) ==
    [k \in DOMAIN target \cup DOMAIN source |->
        IF k \in DOMAIN source THEN source[k] ELSE target[k]]

\* one attempt of /([^:;]+):\s*([^;]+)/ at position i
declarationRegexAt(s, i) ==
    LET n == RunLen(s, i, {":", ";"}, FALSE)
        c == i + n                                  \* the ":"
        m == RunLen(s, c + 1, {";"}, FALSE)              \* what follows up to ";"
        w == RunLen(s, c + 1, WS, TRUE)
        k == IF w < m THEN w ELSE m - 1             \* \s* gives back one token
    IN  IF n >= 1 /\ c <= Len(s) /\ s[c] = ":" /\ m >= 1
        THEN [found |-> TRUE, property |-> SubSeq(s, i, c - 1),
              value |-> SubSeq(s, c + 1 + k, c + m), last |-> c + m]
        ELSE NoMatch

\* the declarations loop of parseCssRules
RECURSIVE parseDeclarationsFrom(_, _, _)
parseDeclarationsFrom(s, from, properties) ==
    LET hits == {i \in from..Len(s) : declarationRegexAt(s, i).found}
    IN  IF hits = {} THEN properties
        ELSE LET m == declarationRegexAt(s, CHOOSE i \in hits : \A h \in hits : i <= h)
             IN  parseDeclarationsFrom(s, m.last + 1,
                                       Put(properties, trim(m.property), trim(m.value)))

parseDeclarations(declarations) == parseDeclarationsFrom(declarations, 1, EmptyMap)

\* one attempt of /([^{]+)\{([^}]+)\}/ at position i
ruleRegexAt(s, i) ==
    LET n == RunLen(s, i, {"{"}, FALSE)
        b == i + n                                  \* the "{"
        m == RunLen(s, b + 1, {"}"}, FALSE)
        e == b + 1 + m                              \* the "}"
    IN  IF n >= 1 /\ b <= Len(s) /\ m >= 1 /\ e <= Len(s)
        THEN [found |-> TRUE, selector |-> SubSeq(s, i, b - 1),
              declarations |-> SubSeq(s, b + 1, e - 1), last |-> e]
        ELSE NoMatch

RECURSIVE parseCssRulesFrom(_, _, _)
parseCssRulesFrom(css, from, styles) ==
    LET hits == {i \in from..Len(css) : ruleRegexAt(css, i).found}
    IN  IF hits = {} THEN styles
        ELSE LET m == ruleRegexAt(css, CHOOSE i \in hits : \A h \in hits : i <= h)
             IN  parseCssRulesFrom(css, m.last + 1,
                     Store(styles, trim(m.selector), parseDeclarations(m.declarations)))

parseCssRules(css, styles) == parseCssRulesFrom(css, 1, styles)

\* styleMatch.replace(/<\/?style[^>]*>/gi, '')
RECURSIVE StripStyleTags(_)
StripStyleTags(s) ==
    LET t == toLowerCase(s)
        nameAt(i) == IF i + 1 <= Len(s) /\ t[i + 1] = "/" THEN i + 2 ELSE i + 1
        gtAt(i) == nameAt(i) + 1 + RunLen(s, nameAt(i) + 1, {">"}, FALSE)
        hits == {i \in 1..Len(s) :
                    /\ s[i] = "<"
                    /\ nameAt(i) <= Len(s) /\ t[nameAt(i)] = "style"
                    /\ gtAt(i) <= Len(s)}
    IN  IF hits = {} THEN s
        ELSE LET i == CHOOSE i \in hits : \A h \in hits : i <= h
             IN  SubSeq(s, 1, i - 1) \o StripStyleTags(SubSeq(s, gtAt(i) + 1, Len(s)))

\* the matches of /<style[^>]*>([\s\S]*?)<\/style>/gi, parsed in document order
RECURSIVE extractCssStylesFrom(_, _, _)
extractCssStylesFrom(s, from, styles) ==
    LET t == toLowerCase(s)
        gtAt(i) == i + 2 + RunLen(s, i + 2, {">"}, FALSE)
        closeAt(i) == IndexOfFrom(t, <<"<", "/", "style", ">">>, gtAt(i) + 1)
        hits == {i \in from..Len(s) :
                    /\ StartsWithAt(t, i, <<"<", "style">>)
                    /\ gtAt(i) <= Len(s)
                    /\ closeAt(i) # 0}
    IN  IF hits = {} THEN styles
        ELSE LET i == CHOOSE i \in hits : \A h \in hits : i <= h
                 last == closeAt(i) + 3
             IN  extractCssStylesFrom(s, last + 1,
                     parseCssRules(StripStyleTags(SubSeq(s, i, last)), styles))

extractCssStyles(s) == extractCssStylesFrom(s, 1, <<>>)

\* a scan that takes the whole text whether or not there is a body
bodyContentWhole(s) == s

\* html.match(/<body[^>]*>([\s\S]*?)<\/body>/i): the captured content, or the
\* text itself when there is no match
bodyContent(s) ==
    LET t == toLowerCase(s)
        gtAt(i) == i + 2 + RunLen(s, i + 2, {">"}, FALSE)
        closeAt(i) == IndexOfFrom(t, <<"<", "/", "body", ">">>, gtAt(i) + 1)
        hits == {i \in 1..Len(s) :
                    /\ StartsWithAt(t, i, <<"<", "body">>)
                    /\ gtAt(i) <= Len(s)
                    /\ closeAt(i) # 0}
    IN  IF hits = {} THEN s
        ELSE LET i == CHOOSE i \in hits : \A h \in hits : i <= h
             IN  SubSeq(s, gtAt(i) + 1, closeAt(i) - 1)

parseElementsOrAgain(s, elements) ==
    IF Len(elements) = 0 THEN parseElements(s) ELSE elements

parseBody(s) == parseElementsOrAgain(s, parseElements(s))

parseHtmlString(s) ==
    parseBody(bodyContent(
        StripBlocks(
            StripBlocks(
                StripBlocks(s, <<"<", "!--">>, <<"--", ">">>, FALSE),
                <<"<", "script">>, <<"<", "/", "script", ">">>, TRUE),
            <<"<", "style">>, <<"<", "/", "style", ">">>, TRUE)))

-----------------------------------------------------------------------------
(* HtmlParser: the cascade resolver *)

\* parseInlineStyles
RECURSIVE parseInlineDeclarations(_, _)
parseInlineDeclarations(declarations, styles) ==
    IF declarations = <<>> THEN styles
    ELSE LET parts == split(Head(declarations), ":")
             property == trim(parts[1])
             hasValue == Len(parts) >= 2
             value == IF hasValue THEN trim(parts[2]) ELSE Empty
         IN  parseInlineDeclarations(Tail(declarations),
                 IF property # Empty /\ hasValue /\ value # Empty
                 THEN Put(styles, property, value)
                 ELSE styles)

parseInlineStyles(styleStr) ==
    IF styleStr = Empty THEN EmptyMap
    ELSE parseInlineDeclarations(split(styleStr, ";"), EmptyMap)

Attr(element, name) ==
    IF <<name>> \in DOMAIN element.attributes THEN element.attributes[<<name>>] ELSE Empty

\* s.split(sep).filter(c => c.trim())
SplitNonBlank(s, sep) == SelectSeq(split(s, sep), LAMBDA c : trim(c) # Empty)

IndexOfElem(seq, x) == \E k \in DOMAIN seq : seq[k] = x

\* a compound check that wants the classes in the selector's order
RECURSIVE ApplyCompoundInOrder(_, _, _, _, _)
ApplyCompoundInOrder(cssRules, k, className, classes, styles) ==
    IF k > Len(cssRules) THEN styles
    ELSE LET selector == cssRules[k].selector
             selectorClasses == SplitNonBlank(selector, ".")
             applies ==
                 /\ includes(selector, <<".">> \o className)
                 /\ selector # <<".">> \o trim(className)
                 /\ Len(selectorClasses) <= Len(classes)
                 /\ \A j \in DOMAIN selectorClasses : classes[j] = selectorClasses[j]
         IN  ApplyCompoundInOrder(cssRules, k + 1, className, classes,
                 IF applies THEN Assign(styles, cssRules[k].properties) ELSE styles)

\* the for..in loop over cssStyles inside the class loop, from entry k on
RECURSIVE ApplyCompound(_, _, _, _, _)
ApplyCompound(cssRules, k, className, classes, styles) ==
    IF k > Len(cssRules) THEN styles
    ELSE LET selector == cssRules[k].selector
             selectorClasses == SplitNonBlank(selector, ".")
             applies ==
                 /\ includes(selector, <<".">> \o className)
                 /\ selector # <<".">> \o trim(className)
                 /\ \A j \in DOMAIN selectorClasses : IndexOfElem(classes, selectorClasses[j])
         IN  ApplyCompound(cssRules, k + 1, className, classes,
                 IF applies THEN Assign(styles, cssRules[k].properties) ELSE styles)

\* the loop over the element's classes, from class k on
RECURSIVE ApplyClasses(_, _, _, _)
ApplyClasses(cssRules, classes, k, styles) ==
    IF k > Len(classes) THEN styles
    ELSE LET className == classes[k]
             classSelector == <<".">> \o trim(className)
             simple == IF Has(cssRules, classSelector)
                       THEN Assign(styles, Get(cssRules, classSelector))
                       ELSE styles
         IN  ApplyClasses(cssRules, classes, k + 1,
                 ApplyCompound(cssRules, 1, className, classes, simple))

\* the for..in loop of the descendant selectors, from entry k on
RECURSIVE ApplyDescendant(_, _, _, _)
ApplyDescendant(cssRules, k, tagName, styles) ==
    IF k > Len(cssRules) THEN styles
    ELSE LET selector == cssRules[k].selector
             parts == split(selector, " ")
             applies ==
                 /\ includes(selector, <<" ">>)
                 /\ ~includes(selector, <<".">>)
                 /\ ~includes(selector, <<"#">>)
                 /\ trim(parts[Len(parts)]) = tagName
         IN  ApplyDescendant(cssRules, k + 1, tagName,
                 IF applies THEN Assign(styles, cssRules[k].properties) ELSE styles)

AssignIfPresent(styles, cssRules, selector) ==
    IF Has(cssRules, selector) THEN Assign(styles, Get(cssRules, selector)) ELSE styles

\* a cascade in which the tag rule is laid over the class rules
applyCssStylesTagOverClass(element, cssRules, inlineStyles) ==
    LET universal == AssignIfPresent(EmptyMap, cssRules, <<"*">>)
        class == Attr(element, "class")
        byClass == IF class # Empty
                   THEN ApplyClasses(cssRules, SplitNonBlank(class, " "), 1, universal)
                   ELSE universal
        byTag == AssignIfPresent(byClass, cssRules, element.tagName)
        id == Attr(element, "id")
        byId == IF id # Empty
                THEN AssignIfPresent(byTag, cssRules, <<"#">> \o id)
                ELSE byTag
        byHover == AssignIfPresent(byId, cssRules, element.tagName \o <<":", "hover">>)
        byDescendant == ApplyDescendant(cssRules, 1, element.tagName, byHover)
    IN  Assign(byDescendant, inlineStyles)

applyCssStyles(element, cssRules, inlineStyles) ==
    LET universal == AssignIfPresent(EmptyMap, cssRules, <<"*">>)
        byTag == AssignIfPresent(universal, cssRules, element.tagName)
        class == Attr(element, "class")
        byClass == IF class # Empty
                   THEN ApplyClasses(cssRules, SplitNonBlank(class, " "), 1, byTag)
                   ELSE byTag
        id == Attr(element, "id")
        byId == IF id # Empty
                THEN AssignIfPresent(byClass, cssRules, <<"#">> \o id)
                ELSE byClass
        byHover == AssignIfPresent(byId, cssRules, element.tagName \o <<":", "hover">>)
        byDescendant == ApplyDescendant(cssRules, 1, element.tagName, byHover)
    IN  Assign(byDescendant, inlineStyles)

RECURSIVE convertToParseElement(_, _)
convertToParseElement(element, cssRules) ==
    [tagName |-> element.tagName,
     textContent |-> element.textContent,
     attributes |-> element.attributes,
     styles |-> applyCssStyles(element, cssRules, parseInlineStyles(Attr(element, "style"))),
     children |-> [k \in DOMAIN element.children |->
                      convertToParseElement(element.children[k], cssRules)]]

-----------------------------------------------------------------------------
(* StyleProcessor: the color resolver.  A color string is a sequence of    *)
(* single characters.  A channel is kept as its numerator over 255.        *)

Null == [isNull |-> TRUE]

RGB(r, g, b) == [isNull |-> FALSE, r |-> r, g |-> g, b |-> b]

HexDigits == <<"0", "1", "2", "3", "4", "5", "6", "7", "8", "9", "a", "b", "c", "d", "e", "f">>

IsHexDigit(c) == \E k \in DOMAIN HexDigits : HexDigits[k] = LowerTok(c)

HexVal(c) == (CHOOSE k \in DOMAIN HexDigits : HexDigits[k] = LowerTok(c)) - 1

\* /^#?([a-f\d]{2})([a-f\d]{2})([a-f\d]{2})$/i and parseInt(.., 16) / 255
hexToRgb(hex) ==
    LET d == IF hex # Empty /\ hex[1] = "#" THEN Tail(hex) ELSE hex
        pair(k) == 16 * HexVal(d[k]) + HexVal(d[k + 1])
    IN  IF Len(d) = 6 /\ \A k \in 1..6 : IsHexDigit(d[k])
        THEN RGB(pair(1), pair(3), pair(5))
        ELSE RGB(0, 0, 0)

Digits == {"0", "1", "2", "3", "4", "5", "6", "7", "8", "9"}

\* parseInt of a run of decimal digits
RECURSIVE parseIntDigits(_)
parseIntDigits(d) ==
    IF d = Empty THEN 0
    ELSE 10 * parseIntDigits(SubSeq(d, 1, Len(d) - 1)) + HexVal(d[Len(d)])

\* i moved over \s*
SkipWs(s, i) == i + RunLen(s, i, WS, TRUE)

\* (\d+)<unit> at position a: [found, value, next], greedy and without a
\* second way to match
DigitsAt(s, a, n, unit) ==
    IF n >= 1 /\ StartsWithAt(s, a + n, unit)
    THEN [found |-> TRUE, value |-> parseIntDigits(SubSeq(s, a, a + n - 1)),
          next |-> a + n + Len(unit)]
    ELSE NoMatch

\* \s*(\d+)<unit> at position i
NumberAt(s, i, unit) == DigitsAt(s, SkipWs(s, i), RunLen(s, SkipWs(s, i), Digits, TRUE), unit)

\* \s*,\s*(\d+)<unit> after the number prev
NumberAfter(s, prev, unit) ==
    IF prev.found /\ StartsWithAt(s, SkipWs(s, prev.next), <<",">>)
    THEN NumberAt(s, SkipWs(s, prev.next) + 1, unit)
    ELSE NoMatch

\* [\d.]+\s*\) at position v
AlphaAt(s, v, e) == e > v /\ StartsWithAt(s, SkipWs(s, e), <<")">>)

\* (?:\s*,\s*[\d.]+)?\s*\) at position i
AlphaAndClose(s, i) ==
    \/ StartsWithAt(s, SkipWs(s, i), <<")">>)
    \/ /\ StartsWithAt(s, SkipWs(s, i), <<",">>)
       /\ AlphaAt(s, SkipWs(s, SkipWs(s, i) + 1),
                  SkipWs(s, SkipWs(s, i) + 1)
                     + RunLen(s, SkipWs(s, SkipWs(s, i) + 1), Digits \cup {"."}, TRUE))

\* the end of the pattern once its three numbers are matched
ThreeNumbersClosed(s, n1, n2, n3) ==
    IF n3.found /\ AlphaAndClose(s, n3.next)
    THEN [found |-> TRUE, v1 |-> n1.value, v2 |-> n2.value, v3 |-> n3.value]
    ELSE NoMatch

ThreeNumbersAfter(s, n1, n2, unit) == ThreeNumbersClosed(s, n1, n2, NumberAfter(s, n2, unit))

\* ( n , n <unit> , n <unit> [, alpha] ) with the "(" at position open
ThreeNumbersFrom(s, open, unit) ==
    IF StartsWithAt(s, open, <<"(">>)
    THEN ThreeNumbersAfter(s, NumberAt(s, open + 1, Empty),
                           NumberAfter(s, NumberAt(s, open + 1, Empty), unit), unit)
    ELSE NoMatch

\* name a? ( ... ) at position i
ThreeNumbersAt(s, i, name, unit) ==
    IF ~StartsWithAt(s, i, name) THEN NoMatch
    ELSE IF StartsWithAt(s, i + Len(name), <<"a">>)
    THEN ThreeNumbersFrom(s, i + Len(name) + 1, unit)
    ELSE ThreeNumbersFrom(s, i + Len(name), unit)

\* the first match of the pattern from position i on
RECURSIVE ThreeNumbersSearch(_, _, _, _)
ThreeNumbersSearch(s, i, name, unit) ==
    IF i > Len(s) THEN NoMatch
    ELSE IF ThreeNumbersAt(s, i, name, unit).found THEN ThreeNumbersAt(s, i, name, unit)
    ELSE ThreeNumbersSearch(s, i + 1, name, unit)

\* the three numbers of name a? ( n , n <unit> , n <unit> [, alpha] ), matched
\* anywhere in the string; unit is "" for rgb and "%" for the s and l of hsl
ThreeNumbers(s, name, unit) == ThreeNumbersSearch(s, 1, name, unit)

\* Math.round(num / den * 255), num / den >= 0
Round255(num, den) == (2 * 255 * num + den) \div (2 * den)

\* hslToRgb with h = hd / 360, s = sp / 100, l = lp / 100, in exact arithmetic
\* over the denominator 10000 for p and q and 60 for 6 * t
hslToRgb(hd, sp, lp) ==
    LET q == IF lp < 50 THEN lp * (100 + sp) ELSE 100 * lp + 100 * sp - lp * sp
        p == 200 * lp - q
        hue2rgb(t0) ==
            \* t0 is t * 360; the result is a numerator over 600000
            LET t == IF t0 < 0 THEN t0 + 360 ELSE IF t0 > 360 THEN t0 - 360 ELSE t0
            IN  IF t < 60 THEN 60 * p + (q - p) * t
                ELSE IF t < 180 THEN 60 * q
                ELSE IF t < 240 THEN 60 * p + (q - p) * (240 - t)
                ELSE 60 * p
    IN  IF sp = 0
        THEN RGB(Round255(lp, 100), Round255(lp, 100), Round255(lp, 100))
        ELSE RGB(Round255(hue2rgb(hd + 120), 600000),
                 Round255(hue2rgb(hd), 600000),
                 Round255(hue2rgb(hd - 120), 600000))

namedColors ==
    <<"b", "l", "a", "c", "k">> :> <<"#", "0", "0", "0", "0", "0", "0">> @@
    <<"w", "h", "i", "t", "e">> :> <<"#", "f", "f", "f", "f", "f", "f">> @@
    <<"r", "e", "d">> :> <<"#", "f", "f", "0", "0", "0", "0">> @@
    <<"g", "r", "e", "e", "n">> :> <<"#", "0", "0", "8", "0", "0", "0">> @@
    <<"b", "l", "u", "e">> :> <<"#", "0", "0", "0", "0", "f", "f">> @@
    <<"y", "e", "l", "l", "o", "w">> :> <<"#", "f", "f", "f", "f", "0", "0">> @@
    <<"c", "y", "a", "n">> :> <<"#", "0", "0", "f", "f", "f", "f">> @@
    <<"m", "a", "g", "e", "n", "t", "a">> :> <<"#", "f", "f", "0", "0", "f", "f">> @@
    <<"s", "i", "l", "v", "e", "r">> :> <<"#", "c", "0", "c", "0", "c", "0">> @@
    <<"g", "r", "a", "y">> :> <<"#", "8", "0", "8", "0", "8", "0">> @@
    <<"g", "r", "e", "y">> :> <<"#", "8", "0", "8", "0", "8", "0">> @@
    <<"m", "a", "r", "o", "o", "n">> :> <<"#", "8", "0", "0", "0", "0", "0">> @@
    <<"o", "l", "i", "v", "e">> :> <<"#", "8", "0", "8", "0", "0", "0">> @@
    <<"l", "i", "m", "e">> :> <<"#", "0", "0", "f", "f", "0", "0">> @@
    <<"a", "q", "u", "a">> :> <<"#", "0", "0", "f", "f", "f", "f">> @@
    <<"t", "e", "a", "l">> :> <<"#", "0", "0", "8", "0", "8", "0">> @@
    <<"n", "a", "v", "y">> :> <<"#", "0", "0", "0", "0", "8", "0">> @@
    <<"f", "u", "c", "h", "s", "i", "a">> :> <<"#", "f", "f", "0", "0", "f", "f">> @@
    <<"p", "u", "r", "p", "l", "e">> :> <<"#", "8", "0", "0", "0", "8", "0">> @@
    <<"o", "r", "a", "n", "g", "e">> :> <<"#", "f", "f", "a", "5", "0", "0">> @@
    <<"p", "i", "n", "k">> :> <<"#", "f", "f", "c", "0", "c", "b">> @@
    <<"b", "r", "o", "w", "n">> :> <<"#", "a", "5", "2", "a", "2", "a">> @@
    <<"d", "a", "r", "k", "g", "r", "a", "y">> :> <<"#", "a", "9", "a", "9", "a", "9">> @@
    <<"d", "a", "r", "k", "g", "r", "e", "y">> :> <<"#", "a", "9", "a", "9", "a", "9">> @@
    <<"l", "i", "g", "h", "t", "g", "r", "a", "y">> :> <<"#", "d", "3", "d", "3", "d", "3">> @@
    <<"l", "i", "g", "h", "t", "g", "r", "e", "y">> :> <<"#", "d", "3", "d", "3", "d", "3">> @@
    <<"t", "r", "a", "n", "s", "p", "a", "r", "e", "n", "t">> :> <<"#", "f", "f", "f", "f", "f", "f">>

namedColor(color) ==
    IF color \in DOMAIN namedColors THEN hexToRgb(namedColors[color]) ELSE Null

rgbColor(match, otherwise) ==
    IF match.found THEN RGB(match.v1, match.v2, match.v3) ELSE otherwise

hslColor(match, otherwise) ==
    IF match.found THEN hslToRgb(match.v1, match.v2, match.v3) ELSE otherwise

\* parseColor once the string is trimmed and lowered
parseColorLowered(color) ==
    IF startsWith(color, <<"#">>) THEN hexToRgb(color)
    ELSE IF startsWith(color, <<"r", "g", "b">>)
    THEN rgbColor(ThreeNumbers(color, <<"r", "g", "b">>, Empty), namedColor(color))
    ELSE IF startsWith(color, <<"h", "s", "l">>)
    THEN hslColor(ThreeNumbers(color, <<"h", "s", "l">>, <<"%">>), namedColor(color))
    ELSE namedColor(color)

parseColor(color) ==
    IF color = Empty THEN Null ELSE parseColorLowered(toLowerCase(trim(color)))

-----------------------------------------------------------------------------
(* StyleProcessor: the shadow resolver.  A box-shadow value is a sequence   *)
(* of single characters without a line break.                               *)

\* (\d+)px at position a: [found, value, next]
pxAt(s, a) == DigitsAt(s, a, RunLen(s, a, Digits, TRUE), <<"p", "x">>)

\* \s+(\d+)px after the length prev
pxAfter(s, prev) ==
    IF prev.found /\ RunLen(s, prev.next, WS, TRUE) >= 1
    THEN pxAt(s, SkipWs(s, prev.next))
    ELSE NoMatch

\* \s+(.+) from position i to the end of the text: the white space is as
\* long as it can be and leaves (.+) one character at least
restAfter(s, i, ws) ==
    IF ws >= 1 /\ i + ws <= Len(s) THEN [found |-> TRUE, value |-> SubSeq(s, i + ws, Len(s))]
    ELSE IF ws >= 2 THEN [found |-> TRUE, value |-> SubSeq(s, Len(s), Len(s))]
    ELSE NoMatch

\* the match of (\d+)px\s+(\d+)px\s+(\d+)px\s+(.+) with the three lengths
\* found
shadowMatch(s, x, y, blur) ==
    IF blur.found /\ restAfter(s, blur.next, RunLen(s, blur.next, WS, TRUE)).found
    THEN [found |-> TRUE, x |-> x.value, y |-> y.value, blur |-> blur.value,
          color |-> restAfter(s, blur.next, RunLen(s, blur.next, WS, TRUE)).value]
    ELSE NoMatch

\* one attempt of /(\d+)px\s+(\d+)px\s+(\d+)px\s+(.+)/ at position i
shadowRegexAt(s, i) ==
    shadowMatch(s, pxAt(s, i), pxAfter(s, pxAt(s, i)),
                pxAfter(s, pxAfter(s, pxAt(s, i))))

\* the alpha 0.1 of a shadow
DefaultAlpha == 1000

DropShadow(color, x, y, blur) ==
    [isNull |-> FALSE,
     color |-> [r |-> color.r, g |-> color.g, b |-> color.b, a |-> DefaultAlpha],
     offset |-> [x |-> x, y |-> y],
     radius |-> blur]

shadowOf(match, color) ==
    IF color.isNull THEN Null ELSE DropShadow(color, match.x, match.y, match.blur)

\* a resolver that takes a value only if the whole of it is matched from its
\* first character on
parseBoxShadowAnchored(boxShadow) ==
    IF shadowRegexAt(boxShadow, 1).found
    THEN shadowOf(shadowRegexAt(boxShadow, 1), parseColor(shadowRegexAt(boxShadow, 1).color))
    ELSE Null

\* boxShadow.match(...): the leftmost match
parseBoxShadowFrom(boxShadow, hits) ==
    IF hits = {} THEN Null
    ELSE shadowOf(shadowRegexAt(boxShadow, CHOOSE i \in hits : \A h \in hits : i <= h),
                  parseColor(shadowRegexAt(boxShadow,
                                           CHOOSE i \in hits : \A h \in hits : i <= h).color))

parseBoxShadow(boxShadow) ==
    parseBoxShadowFrom(boxShadow,
                       {i \in 1..Len(boxShadow) : shadowRegexAt(boxShadow, i).found})

-----------------------------------------------------------------------------
(* StyleProcessor: lengths.  A size string is a sequence of single          *)
(* characters.  A JavaScript number is kept in ten-thousandths, which holds *)
(* every value the strings considered here lead to without rounding.        *)

Px(n) == n * 10000

NaN == [isNaN |-> TRUE]

Num(n) == [isNaN |-> FALSE, n |-> n]

RECURSIVE Pow10(_)
Pow10(k) == IF k <= 0 THEN 1 ELSE 10 * Pow10(k - 1)

Min(a, b) == IF a < b THEN a ELSE b

\* the digits d after the decimal point, in ten-thousandths
Fraction(d) == parseIntDigits(SubSeq(d, 1, Min(Len(d), 4))) * Pow10(4 - Min(Len(d), 4))

\* the mantissa m scaled by the exponent part at position e of s, if there
\* is one: e or E, an optional sign, digits
Exponent(s, e, m, signed) ==
    IF ~(StartsWithAt(s, e, <<"e">>) \/ StartsWithAt(s, e, <<"E">>)) THEN m
    ELSE IF RunLen(s, e + 1 + signed, Digits, TRUE) = 0 THEN m
    ELSE IF StartsWithAt(s, e + 1, <<"-">>)
    THEN m \div Pow10(parseIntDigits(SubSeq(s, e + 2, e + 1 + RunLen(s, e + 2, Digits, TRUE))))
    ELSE m * Pow10(parseIntDigits(SubSeq(s, e + 1 + signed,
                                         e + signed + RunLen(s, e + 1 + signed, Digits, TRUE))))

\* the decimal literal at b: ni digits, and nf digits after a "."
Mantissa(s, b, ni, nf) ==
    Px(parseIntDigits(SubSeq(s, b, b + ni - 1)))
        + Fraction(SubSeq(s, b + ni + 1, b + ni + nf))

\* where the literal at b ends: behind the digits, and behind the "." and
\* its digits when they follow
MantissaEnd(s, b, ni, nf) ==
    IF StartsWithAt(s, b + ni, <<".">>) /\ ni + nf > 0 THEN b + ni + 1 + nf ELSE b + ni

Signed(s, i) == IF StartsWithAt(s, i, <<"+">>) \/ StartsWithAt(s, i, <<"-">>) THEN 1 ELSE 0

FractionLen(s, d) == IF StartsWithAt(s, d, <<".">>) THEN RunLen(s, d + 1, Digits, TRUE) ELSE 0

parseFloatDigits(s, b, ni, nf, sign) ==
    IF ni + nf = 0 THEN NaN
    ELSE Num(sign * Exponent(s, MantissaEnd(s, b, ni, nf), Mantissa(s, b, ni, nf),
                             Signed(s, MantissaEnd(s, b, ni, nf) + 1)))

parseFloatUnsigned(s, b, ni, sign) == parseFloatDigits(s, b, ni, FractionLen(s, b + ni), sign)

parseFloatSigned(s, a) ==
    parseFloatUnsigned(s, a + Signed(s, a), RunLen(s, a + Signed(s, a), Digits, TRUE),
                       IF StartsWithAt(s, a, <<"-">>) THEN -1 ELSE 1)

\* parseFloat: leading white space, then the longest prefix that is a decimal
\* literal (the literal Infinity is not among the strings considered)
parseFloat(s) == parseFloatSigned(s, SkipWs(s, 1))

\* a size that forgets the unit
parseSizeUnitless(size, value) == IF value.isNaN THEN 0 ELSE value.n

parseSizeOf(size, value) ==
    IF value.isNaN THEN 0
    ELSE IF includes(size, <<"e", "m">>) THEN value.n * 16
    ELSE IF includes(size, <<"r", "e", "m">>) THEN value.n * 16
    ELSE IF includes(size, <<"%">>) THEN value.n
    ELSE IF includes(size, <<"v", "h">>) THEN value.n * 10
    ELSE IF includes(size, <<"v", "w">>) THEN value.n * 14
    ELSE IF includes(size, <<"p", "t">>) THEN (value.n * 133) \div 100
    ELSE value.n

parseSize(size) == IF size = Empty THEN 0 ELSE parseSizeOf(size, parseFloat(size))

fontSizeNames ==
    <<"x", "x", "-", "s", "m", "a", "l", "l">> :> 9 @@
    <<"x", "-", "s", "m", "a", "l", "l">> :> 10 @@
    <<"s", "m", "a", "l", "l">> :> 13 @@
    <<"m", "e", "d", "i", "u", "m">> :> 16 @@
    <<"l", "a", "r", "g", "e">> :> 18 @@
    <<"x", "-", "l", "a", "r", "g", "e">> :> 24 @@
    <<"x", "x", "-", "l", "a", "r", "g", "e">> :> 32

namedFontSize(name) == IF name \in DOMAIN fontSizeNames THEN Px(fontSizeNames[name]) ELSE Px(16)

parseFontSizeOf(fontSize, size) ==
    IF size.isNaN THEN namedFontSize(toLowerCase(fontSize))
    ELSE IF includes(fontSize, <<"e", "m">>) THEN size.n * 16
    ELSE IF includes(fontSize, <<"r", "e", "m">>) THEN size.n * 16
    ELSE IF includes(fontSize, <<"%">>) THEN (size.n * 16) \div 100
    ELSE IF includes(fontSize, <<"p", "t">>) THEN (size.n * 133) \div 100
    ELSE size.n

parseFontSize(fontSize) ==
    IF fontSize = Empty THEN Px(16) ELSE parseFontSizeOf(fontSize, parseFloat(fontSize))

-----------------------------------------------------------------------------
(* StyleProcessor.applyBasicStyles: the size and the padding it leaves a    *)
(* frame with.  The fills, strokes, radii and effects it sets are not part  *)
(* of the node model.                                                       *)

\* element.styles[property], Empty (falsy) when the property is not set
Style(element, property) ==
    IF property \in DOMAIN element.styles THEN element.styles[property] ELSE Empty

Positive(n, otherwise) == IF n > 0 THEN n ELSE otherwise

Capped(width, maxWidth) == IF maxWidth > 0 /\ width > maxWidth THEN maxWidth ELSE width

Raised(height, minHeight) == IF minHeight > 0 /\ height < minHeight THEN minHeight ELSE height

basicWidth(element, width) ==
    IF Style(element, <<"width">>) # Empty
    THEN Positive(parseSize(Style(element, <<"width">>)), width)
    ELSE IF Style(element, <<"max", "-", "width">>) # Empty
    THEN Capped(width, parseSize(Style(element, <<"max", "-", "width">>)))
    ELSE width

basicHeight(element, height) ==
    IF Style(element, <<"height">>) # Empty
    THEN Positive(parseSize(Style(element, <<"height">>)), height)
    ELSE IF Style(element, <<"min", "-", "height">>) # Empty
    THEN Raised(height, parseSize(Style(element, <<"min", "-", "height">>)))
    ELSE height

-----------------------------------------------------------------------------
(* NodeFactory.  A Figma node is a record; src is the path of the element  *)
(* it was created for (the indices from the top-level list down), or <<>>  *)
(* for a node the factory adds on its own (a caption, a bullet).  The body *)
(* of a create function throws, at one of its Figma calls, for exactly the *)
(* elements whose path is in thr.  A node carries the fields the code      *)
(* sets: lengths in ten-thousandths of a pixel; x and y only where the     *)
(* code places the node; the height of a text node is that of one line.    *)
(* A frame with a layoutMode other than NONE is sized by Figma to its      *)
(* content (both sizing modes are AUTO): its width and height are the ones *)
(* last given to resize.                                                   *)

Node(type, variant, src, children) ==
    [isNull |-> FALSE, type |-> type, variant |-> variant, src |-> src,
     children |-> children]

\* figma.createFrame(), resized
Frame(variant, src, children, width, height) ==
    Node("FRAME", variant, src, children)
        @@ [width |-> width, height |-> height, layoutMode |-> "NONE"]

\* figma.createText() with a font size and a line height in percent
Text(src, fontSize, lineHeight) ==
    Node("TEXT", "Text", src, <<>>)
        @@ [fontSize |-> fontSize, lineHeight |-> lineHeight,
            height |-> (fontSize * lineHeight) \div 100]

\* a text the factory adds on its own: text.fontSize = 16
Caption == Node("TEXT", "Text", <<>>, <<>>) @@ [fontSize |-> Px(16)]

\* node.x = x; node.y = y
Placed(node, x, y) == [x |-> x, y |-> y] @@ node

Returned(node) == [threw |-> FALSE, node |-> node]
Thrown == [threw |-> TRUE, node |-> Null]

ContainerTags == {<<"div">>, <<"section">>, <<"article">>, <<"header">>, <<"footer">>}
TextTags == {<<"h1">>, <<"h2">>, <<"h3">>, <<"h4">>, <<"h5">>, <<"h6">>, <<"p">>, <<"span">>}

\* the nodes of a sequence of results that are not null, in order
RECURSIVE NonNull(_)
NonNull(nodes) ==
    IF nodes = <<>> THEN <<>>
    ELSE (IF Head(nodes).isNull THEN <<>> ELSE <<Head(nodes)>>) \o NonNull(Tail(nodes))

tagFontSize ==
    <<"h1">> :> 48 @@ <<"h2">> :> 36 @@ <<"h3">> :> 28 @@ <<"h4">> :> 24 @@
    <<"h5">> :> 20 @@ <<"h6">> :> 18 @@ <<"p">> :> 16 @@ <<"span">> :> 14 @@
    <<"small">> :> 12 @@ <<"strong">> :> 16 @@ <<"em">> :> 16

defaultFontSize(tagName) ==
    IF tagName \in DOMAIN tagFontSize THEN Px(tagFontSize[tagName]) ELSE Px(16)

styledFontSize(element) ==
    IF Style(element, <<"font", "-", "size">>) # Empty
    THEN Positive(parseFontSize(Style(element, <<"font", "-", "size">>)),
                  defaultFontSize(element.tagName))
    ELSE defaultFontSize(element.tagName)

\* the element has no line-height style in the documents considered, so the
\* line height is the default the code sets, 140 percent
createTextNode(element, path, thr) ==
    IF path \in thr THEN Thrown
    ELSE Returned(Text(path, styledFontSize(element), 140))

createButtonNode(element, path, thr) ==
    IF path \in thr THEN Thrown
    ELSE Returned(Frame("Button", path, <<Caption>>,
                        basicWidth(element, Px(120)), basicHeight(element, Px(40))))

createInputNode(element, path, thr) ==
    IF path \in thr THEN Thrown
    ELSE Returned(Frame("Input", path, <<Caption>>,
                        basicWidth(element, Px(280)),
                        basicHeight(element, IF element.tagName = <<"textarea">>
                                             THEN Px(80) ELSE Px(44))))

\* parseInt(value) || otherwise, the value spelled by its characters
parseIntOr(value, otherwise) ==
    IF RunLen(value, 1, Digits, TRUE) = 0 THEN otherwise
    ELSE Positive(parseIntDigits(SubSeq(value, 1, RunLen(value, 1, Digits, TRUE))), otherwise)

createImageNode(element, path, thr) ==
    IF path \in thr THEN Thrown
    ELSE Returned(Node("RECTANGLE", "Image", path, <<>>)
                    @@ [width |-> basicWidth(element,
                                    Px(parseIntOr(Attr(element, "width"), 200))),
                        height |-> basicHeight(element,
                                    Px(parseIntOr(Attr(element, "height"), 150)))])

createListItemNode(element, path, thr) ==
    IF path \in thr THEN Thrown
    ELSE Returned(Frame("ListItem", path,
                        <<Placed(Caption, 0, 0), Placed(Caption, Px(20), 0)>>,
                        Px(280), Px(24)))

\* the items of a list from item k on, each at y = yOffset
RECURSIVE ListItems(_, _, _)
ListItems(items, k, yOffset) ==
    IF k > Len(items) THEN <<>>
    ELSE <<[y |-> yOffset] @@ items[k]>>
            \o ListItems(items, k + 1, yOffset + items[k].height + Px(8))

\* yOffset after the items from k on
RECURSIVE ListEnd(_, _, _)
ListEnd(items, k, yOffset) ==
    IF k > Len(items) THEN yOffset
    ELSE ListEnd(items, k + 1, yOffset + items[k].height + Px(8))

ListOf(path, items) ==
    Frame("List", path, ListItems(items, 1, 0), Px(300), Positive(ListEnd(items, 1, 0), Px(100)))

\* the loop of createListNode calls createListItemNode itself, outside any try
createListNode(element, path, thr) ==
    LET items == [k \in DOMAIN element.children |->
                     createListItemNode(element.children[k], Append(path, k), thr)]
    IN  IF path \in thr \/ \E k \in DOMAIN items : items[k].threw THEN Thrown
        ELSE Returned(ListOf(path, NonNull([k \in DOMAIN items |-> items[k].node])))

isFlexContainer(element) == Style(element, <<"display">>) = <<"flex">>

\* only a div is a block container
isBlockContainerDivOnly(element) ==
    ~isFlexContainer(element) /\ element.tagName = <<"div">>

isBlockContainer(element) ==
    ~isFlexContainer(element) /\ element.tagName \in {<<"div">>, <<"section">>, <<"article">>}

defaultWidth(tagName) ==
    IF tagName \in {<<"header">>, <<"nav">>, <<"footer">>} THEN Px(1200) ELSE Px(800)

\* defaultHeight is a number, not 'auto'
hasDefaultHeight(tagName) == tagName \in {<<"header">>, <<"nav">>, <<"footer">>}

defaultHeight(tagName) == IF tagName = <<"footer">> THEN Px(80) ELSE Px(60)

\* the width after "Apply width"
containerWidth(element, width) ==
    IF Style(element, <<"width">>) # Empty
    THEN Positive(parseSize(Style(element, <<"width">>)), width)
    ELSE defaultWidth(element.tagName)

primaryAxisAlignItems(justifyContent) ==
    IF justifyContent = <<"center">> THEN "CENTER"
    ELSE IF justifyContent \in {<<"flex", "-", "end">>, <<"end">>} THEN "MAX"
    ELSE IF justifyContent \in {<<"space", "-", "between">>, <<"space", "-", "around">>,
                                <<"space", "-", "evenly">>} THEN "SPACE_BETWEEN"
    ELSE "MIN"

counterAxisAlignItems(alignItems) ==
    IF alignItems = <<"center">> THEN "CENTER"
    ELSE IF alignItems \in {<<"flex", "-", "end">>, <<"end">>} THEN "MAX"
    ELSE "MIN"

\* frame.paddingTop = frame.paddingRight = frame.paddingBottom =
\* frame.paddingLeft = padding
Padding(padding) ==
    [paddingTop |-> padding, paddingRight |-> padding,
     paddingBottom |-> padding, paddingLeft |-> padding]

\* element.styles['padding-<side>'] ? parseSize(...) : defaultPadding
sidePadding(element, side) ==
    IF Style(element, <<"padding", "-", side>>) # Empty
    THEN parseSize(Style(element, <<"padding", "-", side>>))
    ELSE 0

\* the padding applyBasicStyles gives a frame
basicPadding(element) ==
    IF Style(element, <<"padding">>) # Empty
    THEN Padding(IF parseSize(Style(element, <<"padding">>)) >= 0
                 THEN parseSize(Style(element, <<"padding">>)) ELSE 0)
    ELSE [paddingTop |-> sidePadding(element, "top"),
          paddingRight |-> sidePadding(element, "right"),
          paddingBottom |-> sidePadding(element, "bottom"),
          paddingLeft |-> sidePadding(element, "left")]

\* parseSize(element.styles.padding || '16')
flexPadding(element) ==
    IF Style(element, <<"padding">>) # Empty THEN parseSize(Style(element, <<"padding">>))
    ELSE Px(16)

\* a flex container that is always laid out in a row
flexLayoutRowOnly(element) ==
    [layoutMode |-> "HORIZONTAL",
     itemSpacing |-> IF Style(element, <<"gap">>) # Empty
                     THEN parseSize(Style(element, <<"gap">>)) ELSE Px(12),
     primaryAxisAlignItems |-> primaryAxisAlignItems(Style(element, <<"justify", "-", "content">>)),
     counterAxisAlignItems |-> counterAxisAlignItems(Style(element, <<"align", "-", "items">>))]
        @@ Padding(flexPadding(element))

\* the auto layout of a flex container
flexLayout(element) ==
    [layoutMode |-> IF Style(element, <<"flex", "-", "direction">>)
                          \in {<<"column">>, <<"column", "-", "reverse">>}
                    THEN "VERTICAL" ELSE "HORIZONTAL",
     itemSpacing |-> IF Style(element, <<"gap">>) # Empty
                     THEN parseSize(Style(element, <<"gap">>)) ELSE Px(12),
     primaryAxisAlignItems |-> primaryAxisAlignItems(Style(element, <<"justify", "-", "content">>)),
     counterAxisAlignItems |-> counterAxisAlignItems(Style(element, <<"align", "-", "items">>))]
        @@ Padding(flexPadding(element))

\* the auto layout of a block container
blockLayout ==
    [layoutMode |-> "VERTICAL", itemSpacing |-> Px(16),
     primaryAxisAlignItems |-> "MIN", counterAxisAlignItems |-> "MIN"]
        @@ Padding(Px(20))

\* children placed one right below the other, without the spacing
RECURSIVE StackedTight(_, _, _)
StackedTight(nodes, k, yOffset) ==
    IF k > Len(nodes) THEN <<>>
    ELSE <<Placed(nodes[k], Px(20), yOffset)>>
            \o StackedTight(nodes, k + 1, yOffset + nodes[k].height)

\* the children of a manually positioned container from child k on, each at
\* x = 20 and y = yOffset
RECURSIVE Stacked(_, _, _)
Stacked(nodes, k, yOffset) ==
    IF k > Len(nodes) THEN <<>>
    ELSE <<Placed(nodes[k], Px(20), yOffset)>>
            \o Stacked(nodes, k + 1, yOffset + nodes[k].height + Px(16))

\* yOffset after the children from k on
RECURSIVE StackEnd(_, _, _)
StackEnd(nodes, k, yOffset) ==
    IF k > Len(nodes) THEN yOffset
    ELSE StackEnd(nodes, k + 1, yOffset + nodes[k].height + Px(16))

Max(a, b) == IF a > b THEN a ELSE b

\* the height of a manually positioned container once its children are placed
manualHeight(element, nodes, height) ==
    IF Len(element.children) > 0 /\ Style(element, <<"height">>) = Empty
    THEN Max(StackEnd(nodes, 1, Px(20)) + Px(20), Px(100))
    ELSE height

\* "Apply height after children are added"
finalHeight(element, height) ==
    IF Style(element, <<"height">>) # Empty /\ hasDefaultHeight(element.tagName)
    THEN Positive(parseSize(Style(element, <<"height">>)), height)
    ELSE IF hasDefaultHeight(element.tagName) THEN defaultHeight(element.tagName)
    ELSE height

\* a container that appends its children last to first
containerOfReversed(element, path, nodes, width, height) ==
    Frame("Container", path, [k \in DOMAIN nodes |-> nodes[Len(nodes) + 1 - k]],
          width, finalHeight(element, height))

\* the frame of a container with the child nodes created, its size being
\* width and height when the layout is chosen
containerOf(element, path, nodes, width, height) ==
    IF isFlexContainer(element)
    THEN flexLayout(element)
            @@ Frame("Container", path, nodes, width, finalHeight(element, height))
    ELSE IF isBlockContainer(element)
    THEN blockLayout
            @@ Frame("Container", path, nodes, width, finalHeight(element, height))
    ELSE basicPadding(element)
            @@ Frame("Container", path, Stacked(nodes, 1, Px(20)), width,
                     finalHeight(element, manualHeight(element, nodes, height)))

RECURSIVE createFigmaNodeFromElement(_, _, _)
RECURSIVE createContainerNode(_, _, _)

\* figma.createFrame() gives a frame of 100 by 100.  The three child loops
\* append what createFigmaNodeFromElement returns unless it is null.
createContainerNode(element, path, thr) ==
    LET childNodes == [k \in DOMAIN element.children |->
                          createFigmaNodeFromElement(element.children[k], Append(path, k), thr)]
    IN  IF path \in thr THEN Thrown
        ELSE Returned(containerOf(element, path, NonNull(childNodes),
                                  containerWidth(element, basicWidth(element, Px(100))),
                                  basicHeight(element, Px(100))))

\* try { switch (element.tagName) ... } catch { return null }
createFigmaNodeFromElement(element, path, thr) ==
    LET tag == element.tagName
        r == IF tag \in ContainerTags THEN createContainerNode(element, path, thr)
             ELSE IF tag \in TextTags THEN createTextNode(element, path, thr)
             ELSE IF tag = <<"button">> THEN createButtonNode(element, path, thr)
             ELSE IF tag \in {<<"input">>, <<"textarea">>} THEN createInputNode(element, path, thr)
             ELSE IF tag = <<"img">> THEN createImageNode(element, path, thr)
             ELSE IF tag \in {<<"ul">>, <<"ol">>} THEN createListNode(element, path, thr)
             ELSE IF tag = <<"li">> THEN createListItemNode(element, path, thr)
             ELSE createContainerNode(element, path, thr)
    IN  IF r.threw THEN Null ELSE r.node

-----------------------------------------------------------------------------
(* main.ts: parseHtml and the message handler *)

Progress == [type |-> "html-parse-progress"]

\* a failure that carries no message
FailureSilent(error) == [elements |-> <<>>, success |-> FALSE, error |-> ""]

Failure(error) == [elements |-> <<>>, success |-> FALSE, error |-> error]

\* parseHtml once the parser has returned, up to the analysis it awaits
parseHtmlParsed(elements, cssRules) ==
    IF Len(elements) = 0
    THEN [failed |-> TRUE, result |-> Failure("no elements"), parsedElements |-> <<>>,
          posted |-> <<Progress, Progress>>]
    ELSE [failed |-> FALSE, result |-> Failure(""),
          parsedElements |-> [k \in DOMAIN elements |->
                                 convertToParseElement(elements[k], cssRules)],
          posted |-> <<Progress, Progress, Progress, Progress>>]

\* parseHtml up to the analysis it awaits: the validation, the parser and the
\* cascade.  [failed, result, parsedElements, posted]
parseHtmlStart(htmlContent) ==
    IF trim(htmlContent) = Empty
    THEN [failed |-> TRUE, result |-> Failure("empty"), parsedElements |-> <<>>,
          posted |-> <<Progress>>]
    ELSE parseHtmlParsed(parseHtmlString(htmlContent), extractCssStyles(htmlContent))

\* AIAnalyzer.extractSpacing: parseInt of the first run of digits of the
\* value, spelled by its characters; 0 without a digit
RECURSIVE extractSpacing(_)
extractSpacing(value) ==
    IF value = Empty THEN 0
    ELSE IF Head(value) \in Digits
    THEN parseIntDigits(SubSeq(value, 1, RunLen(value, 1, Digits, TRUE)))
    ELSE extractSpacing(Tail(value))

\* generateSelector(element, index), of the analyzer and of the optimizer
generateSelector(element, index) ==
    IF Attr(element, "id") # Empty
    THEN [kind |-> "#", name |-> Attr(element, "id"), n |-> 0]
    ELSE IF Attr(element, "class") # Empty
    THEN [kind |-> ".", name |-> split(Attr(element, "class"), " ")[1], n |-> 0]
    ELSE [kind |-> ":nth-child", name |-> element.tagName, n |-> index + 1]

\* an ElementReference, as far as it is read later
elementToReference(element, index) ==
    [selector |-> generateSelector(element, index), tagName |-> element.tagName]

\* styles.gap || styles.margin || '16'
groupSpacing(element) ==
    IF Style(element, <<"gap">>) # Empty THEN Style(element, <<"gap">>)
    ELSE IF Style(element, <<"margin">>) # Empty THEN Style(element, <<"margin">>)
    ELSE <<"1", "6">>

\* the GroupingPattern of an element, made into a LayoutGroup by
\* createLayoutGroups: detectRelationship and mapRelationshipToLayout,
\* detectDirection and the direction of the group, spacing and gap
groupOf(element) ==
    [elements |-> [k \in DOMAIN element.children |->
                      elementToReference(element.children[k], k - 1)],
     layout |-> IF Style(element, <<"display">>) = <<"flex">> THEN "flex"
                ELSE IF Style(element, <<"display">>) = <<"grid">> THEN "grid"
                ELSE "flex",
     direction |-> IF Style(element, <<"flex", "-", "direction">>) = <<"row">>
                   THEN "row" ELSE "column",
     gap |-> extractSpacing(groupSpacing(element)),
     alignment |-> [main |-> "start", cross |-> "start"]]

\* AIAnalyzer.analyzeGrouping with createLayoutGroups' loop over it: one
\* group for each element with more than one child, from element k on
RECURSIVE analyzeGrouping(_, _)
analyzeGrouping(elements, k) ==
    IF k > Len(elements) THEN <<>>
    ELSE (IF Len(elements[k].children) > 1 THEN <<groupOf(elements[k])>> ELSE <<>>)
            \o analyzeGrouping(elements, k + 1)

groupedSelectors(groups) ==
    UNION {{groups[g].elements[k].selector : k \in DOMAIN groups[g].elements} :
             g \in DOMAIN groups}

\* the references of the elements whose selector is not grouped, from
\* element k on
RECURSIVE ungroupedElements(_, _, _)
ungroupedElements(elements, k, grouped) ==
    IF k > Len(elements) THEN <<>>
    ELSE (IF generateSelector(elements[k], k - 1) \in grouped THEN <<>>
          ELSE <<elementToReference(elements[k], 0)>>)
            \o ungroupedElements(elements, k + 1, grouped)

\* createDefaultGroup, without the gap (the spacing unit of the analysis),
\* which is read only from a group with the layout 'flex'
createDefaultGroup(references) ==
    [elements |-> references, layout |-> "stack", direction |-> "column",
     alignment |-> [main |-> "start", cross |-> "stretch"]]

withDefaultGroup(groups, references) ==
    IF Len(references) > 0 THEN Append(groups, createDefaultGroup(references)) ELSE groups

\* createLayoutGroups for the grouping patterns of an analysis
createLayoutGroups(elements, groups) ==
    withDefaultGroup(groups, ungroupedElements(elements, 1, groupedSelectors(groups)))

\* the margins and paddings of the elements from element k on that
\* extractSpacing reads a positive number from: [sum, count]
RECURSIVE spacingsOf(_, _)
spacingsOf(elements, k) ==
    IF k > Len(elements) THEN [sum |-> 0, count |-> 0]
    ELSE LET margin == extractSpacing(Style(elements[k], <<"margin">>))
             padding == extractSpacing(Style(elements[k], <<"padding">>))
             rest == spacingsOf(elements, k + 1)
         IN  [sum |-> rest.sum + margin + padding,
              count |-> rest.count + (IF margin > 0 THEN 1 ELSE 0)
                                   + (IF padding > 0 THEN 1 ELSE 0)]

\* analyzeSpacing(elements).baseUnit: Math.round(avgSpacing / 4) * 4 with
\* avgSpacing the mean of the positive spacings, or 16 when there is none
analyzeSpacing(elements) ==
    LET all == spacingsOf(elements, 1)
    IN  IF all.count = 0 THEN 16
        ELSE ((2 * all.sum + 4 * all.count) \div (8 * all.count)) * 4

\* createSpacingSystem, as far as applyAIOptimizations reads it
createSpacingSystem(baseUnit) ==
    [baseUnit |-> baseUnit,
     vertical |-> [section |-> Px(baseUnit * 6)],
     horizontal |-> [container |-> Px(baseUnit * 4)]]

\* the layouts parseHtml can come to work with: the optimizer's for the rule
\* engine's analysis; the optimizer's for the default analysis parseHtml
\* falls back to when the analysis throws, which has no grouping pattern and
\* the base unit 16; the default layout it falls back to when the optimizer
\* throws, which has no group
Layouts(elements) ==
    { [groups |-> createLayoutGroups(elements, analyzeGrouping(elements, 1)),
       spacing |-> createSpacingSystem(analyzeSpacing(elements))],
      [groups |-> createLayoutGroups(elements, <<>>),
       spacing |-> createSpacingSystem(16)],
      [groups |-> <<>>, spacing |-> createSpacingSystem(16)] }

\* optimizedLayout.groups.find(group => group.elements.some(el => el.tagName
\* === element.tagName))
matchingGroup(groups, tagName) ==
    LET hits == {g \in DOMAIN groups :
                    \E k \in DOMAIN groups[g].elements :
                        groups[g].elements[k].tagName = tagName}
    IN  IF hits = {} THEN NoMatch
        ELSE [found |-> TRUE, group |-> groups[CHOOSE g \in hits : \A h \in hits : g <= h]]

\* the auto layout applyAIOptimizations gives a frame for a flex group
groupLayout(group) ==
    [layoutMode |-> IF group.direction = "row" THEN "HORIZONTAL" ELSE "VERTICAL",
     itemSpacing |-> Px(group.gap),
     primaryAxisAlignItems |->
        IF group.alignment.main = "center" THEN "CENTER"
        ELSE IF group.alignment.main = "end" THEN "MAX"
        ELSE IF group.alignment.main = "space-between" THEN "SPACE_BETWEEN"
        ELSE "MIN",
     counterAxisAlignItems |->
        IF group.alignment.cross = "center" THEN "CENTER"
        ELSE IF group.alignment.cross = "end" THEN "MAX"
        ELSE "MIN"]

\* if (spacing && spacing.baseUnit): the padding of a section or a div
spacedFrame(node, tagName, spacing) ==
    IF spacing.baseUnit # 0 /\ tagName \in {<<"section">>, <<"div">>}
    THEN [paddingTop |-> spacing.vertical.section,
          paddingBottom |-> spacing.vertical.section,
          paddingLeft |-> spacing.horizontal.container,
          paddingRight |-> spacing.horizontal.container] @@ node
    ELSE node

optimizedFrame(node, match) ==
    IF match.found /\ match.group.layout = "flex" THEN groupLayout(match.group) @@ node
    ELSE node

\* typography.headingScale of the rule engine's analysis and of the default
\* analysis alike
headingScale ==
    <<"h1">> :> 48 @@ <<"h2">> :> 36 @@ <<"h3">> :> 28 @@ <<"h4">> :> 24 @@
    <<"h5">> :> 20 @@ <<"h6">> :> 18

\* the font size the typography step leaves a text node with: the heading
\* scale, the body size 16 for p and span
typographySize(node, tagName) ==
    IF tagName \in DOMAIN headingScale THEN Px(headingScale[tagName])
    ELSE IF tagName \in {<<"p">>, <<"span">>} THEN Px(16)
    ELSE node.fontSize

\* applyAIOptimizations(node, element, optimizedLayout, designAnalysis), as
\* far as the node model goes: the auto layout of a frame, the font size and
\* the line height (typography.lineHeight.normal * 100) of a text
applyAIOptimizations(node, element, optimizedLayout) ==
    IF node.type = "FRAME"
    THEN optimizedFrame(spacedFrame(node, element.tagName, optimizedLayout.spacing),
                        matchingGroup(optimizedLayout.groups, element.tagName))
    ELSE IF node.type = "TEXT" THEN Text(node.src, typographySize(node, element.tagName), 150)
    ELSE node

\* a creation loop that gives up at the first element it cannot create
RECURSIVE CreateNodesAborting(_, _, _, _, _)
CreateNodesAborting(elements, k, thr, optimizedLayout, nodes) ==
    IF k > Len(elements) THEN nodes
    ELSE LET node == createFigmaNodeFromElement(elements[k], <<k>>, thr)
         IN  IF node.isNull THEN nodes
             ELSE CreateNodesAborting(elements, k + 1, thr, optimizedLayout,
                      Append(nodes, applyAIOptimizations(node, elements[k], optimizedLayout)))

\* the node creation loop: element k on, the nodes created so far
RECURSIVE CreateNodes(_, _, _, _, _)
CreateNodes(elements, k, thr, optimizedLayout, nodes) ==
    IF k > Len(elements) THEN nodes
    ELSE LET node == createFigmaNodeFromElement(elements[k], <<k>>, thr)
         IN  CreateNodes(elements, k + 1, thr, optimizedLayout,
                         IF node.isNull THEN nodes
                         ELSE Append(nodes, applyAIOptimizations(node, elements[k], optimizedLayout)))

\* the progress messages of the creation loop: one when createdCount is a
\* multiple of 5 or reaches parsedElements.length
LoopProgress(created, total) ==
    [k \in 1..Cardinality({c \in 1..created : c % 5 = 0 \/ c = total}) |-> Progress]

\* parseHtml from the analysis on.  The analysis and the layout optimizer sit
\* in try blocks of their own; of their progress messages only the two that
\* are always posted are kept.
\* [result, appended, posted]
parseHtmlCreated(elements, nodes) ==
    IF Len(nodes) = 0
    THEN [result |-> [elements |-> elements, success |-> FALSE, error |-> "no nodes"],
          appended |-> <<>>,
          posted |-> <<Progress, Progress>> \o LoopProgress(Len(nodes), Len(elements))]
    ELSE [result |-> [elements |-> elements, success |-> TRUE, error |-> ""],
          appended |-> nodes,
          posted |-> <<Progress, Progress>> \o LoopProgress(Len(nodes), Len(elements))
                        \o <<Progress, Progress>>]

parseHtmlFinish(elements, thr, optimizedLayout) ==
    parseHtmlCreated(elements, CreateNodes(elements, 1, thr, optimizedLayout, <<>>))

\* the message the handler posts once parseHtml has returned
Terminal(r) ==
    IF r.success THEN [type |-> "html-parse-complete"]
    ELSE [type |-> "html-parse-error"]

-----------------------------------------------------------------------------
(* The documents handed to the plugin: up to MaxFrags fragments in a row *)

MaxFrags == 3

Frags ==
    << <<"<", "div", ">">>,
       <<"<", "/", "div", ">">>,
       <<"<", "div", ">", "item", "<", "/", "div", ">">>,
       <<"<", "p", ">", "text", " ", "<", "span", ">", "more", "<", "/", "span", ">", "<", "/", "p", ">">>,
       <<"<", "ul", ">">>,
       <<"<", "/", "ul", ">">>,
       <<"<", "li", ">", "item", "<", "/", "li", ">">>,
       <<"<", "input", " ", "type", "=", "\"", "text", "\"", ">">>,
       <<"just", " ", "text">>,
       <<" ">> >>

RECURSIVE Concat(_)
Concat(fs) == IF fs = <<>> THEN <<>> ELSE Frags[Head(fs)] \o Concat(Tail(fs))

Docs == {Concat(fs) : fs \in UNION {[1..n -> DOMAIN Frags] : n \in 0..MaxFrags}}

\* the paths of all elements of a list of element trees
RECURSIVE PathsOf(_, _)
PathsOf(elements, prefix) ==
    UNION {{Append(prefix, k)} \cup PathsOf(elements[k].children, Append(prefix, k)) :
             k \in DOMAIN elements}

-----------------------------------------------------------------------------
(* The plugin: one message from the UI *)

Idle == <<>>

\* the analyzer is left out: the rule engine, with the outcomes of Layouts
NoAnalyzer == aiSettings = Idle /\ aiAnalyzer = Idle /\ designAnalysis = Idle

Unused ==
    /\ elem = Idle /\ cssStyles = Idle /\ combined = Idle /\ text = Idle /\ parsed = Idle
    /\ NoAnalyzer

InitPlugin ==
    /\ html \in Docs
    /\ pc = "idle"
    /\ parsedElements = <<>>
    /\ throwing = {}
    /\ result = Failure("")
    /\ page = <<>>
    /\ posted = <<>>
    /\ Unused

\* the handler up to the point where parseHtml returns or waits, r being
\* what parseHtml has done so far
Started(r) ==
    /\ parsedElements' = r.parsedElements
    /\ result' = r.result
    /\ posted' = posted \o <<Progress>> \o r.posted
                   \o (IF r.failed THEN <<Terminal(r.result)>> ELSE <<>>)
    /\ pc' = IF r.failed THEN "done" ELSE "analysing"

\* figma.ui.onmessage, msg.type === 'parse-html': the handler and parseHtml
\* run up to the await of the analysis, or to the end when parseHtml returns
\* before it
OnParseHtml ==
    /\ pc = "idle"
    /\ Started(parseHtmlStart(html))
    /\ UNCHANGED <<aiSettings, aiAnalyzer, designAnalysis,
                   html, throwing, page, elem, cssStyles, combined, text, parsed>>

\* a handler that reports success once more after its terminal message
FinishedThenProgress(r) ==
    /\ result' = r.result
    /\ page' = page \o r.appended
    /\ posted' = posted \o r.posted \o <<Terminal(r.result), Progress>>

\* the end of the handler, r being what parseHtml did after the analysis
Finished(r) ==
    /\ result' = r.result
    /\ page' = page \o r.appended
    /\ posted' = posted \o r.posted \o <<Terminal(r.result)>>

\* the rest of parseHtml and of the handler; the Figma calls of the node
\* factory throw for the elements of thr, and the analysis and the optimizer
\* leave parseHtml with the layout chosen
OnAnalysed ==
    /\ pc = "analysing"
    /\ \E thr \in SUBSET PathsOf(parsedElements, <<>>), optimizedLayout \in Layouts(parsedElements) :
          /\ throwing' = thr
          /\ Finished(parseHtmlFinish(parsedElements, thr, optimizedLayout))
    /\ pc' = "done"
    /\ UNCHANGED <<aiSettings, aiAnalyzer, designAnalysis,
                   html, parsedElements, elem, cssStyles, combined, text, parsed>>

\* figma.ui.onmessage, msg.type === 'cancel': figma.closePlugin()
OnCancel ==
    /\ pc = "idle"
    /\ pc' = "closed"
    /\ UNCHANGED <<aiSettings, aiAnalyzer, designAnalysis,
                   html, parsedElements, throwing, result, page, posted,
                   elem, cssStyles, combined, text, parsed>>

Next == OnParseHtml \/ OnAnalysed \/ OnCancel

Spec == InitPlugin /\ [][Next]_vars

-----------------------------------------------------------------------------
(* The plugin on styled documents: one element with a style attribute and  *)
(* up to MaxChildren children.  The value of a length is spelled by its    *)
(* characters, as the length parsers read it.                              *)

MaxChildren == 3

\* <tag style="style">inner</tag>
Element(tag, style, inner) ==
    <<"<", tag>>
        \o (IF style = Empty THEN Empty ELSE <<" ", "style", "=", "\"">> \o style \o <<"\"">>)
        \o <<">">> \o inner \o <<"<", "/", tag, ">">>

ChildFrags ==
    << Element("button", Empty, <<"Go">>),
       Element("span", Empty, <<"Label">>),
       <<"<", "input", " ", "/", ">">> >>

RECURSIVE Children(_)
Children(fs) == IF fs = <<>> THEN <<>> ELSE ChildFrags[Head(fs)] \o Children(Tail(fs))

ChildLists == {Children(fs) : fs \in UNION {[1..n -> DOMAIN ChildFrags] : n \in 0..MaxChildren}}

SizedTags == {"div", "header", "footer", "main"}

SizeStyles ==
    { Empty,
      <<"display", ":", "flex">>,
      <<"max", "-", "width", ":", " ", "6", "0", "0", "p", "x">>,
      <<"max", "-", "width", ":", "5", "0", "p", "x">>,
      <<"min", "-", "height", ":", "2", "0", "0", "p", "x">>,
      <<"min", "-", "height", ":", "3", "0", "p", "x">>,
      <<"width", ":", "3", "0", "0", "p", "x", ";", "max", "-", "width", ":", "2", "0", "0", "p", "x">>,
      <<"height", ":", "5", "0", "p", "x">> }

SizedDocs == {Element(tag, style, inner) :
                 tag \in SizedTags, style \in SizeStyles, inner \in ChildLists}

Declaration(property, value) ==
    IF value = Empty THEN Empty ELSE <<";">> \o property \o <<":">> \o value

FlexDirections ==
    { Empty, <<"row">>, <<"row", "-", "reverse">>, <<"column">>, <<"column", "-", "reverse">> }

JustifyContents ==
    { Empty, <<"center">>, <<"flex", "-", "start">>, <<"flex", "-", "end">>, <<"end">>,
      <<"space", "-", "between">>, <<"space", "-", "around">>, <<"space", "-", "evenly">> }

AlignItems ==
    { Empty, <<"center">>, <<"flex", "-", "start">>, <<"flex", "-", "end">>, <<"end">>,
      <<"stretch">> }

Gaps == { Empty, <<"8", "p", "x">>, <<"1", ".", "5", "e", "m">> }

FlexStyles ==
    {<<"display", ":", "flex">>
        \o Declaration(<<"flex", "-", "direction">>, direction)
        \o Declaration(<<"justify", "-", "content">>, justify)
        \o Declaration(<<"align", "-", "items">>, align)
        \o Declaration(<<"gap">>, gap) :
        direction \in FlexDirections, justify \in JustifyContents, align \in AlignItems,
        gap \in Gaps}

FlexDocs == {Element("div", style, Children(<<1, 2>>)) : style \in FlexStyles}

ListDocs ==
    {Element(tag, Empty, items) :
        tag \in {"ul", "ol"},
        items \in {Empty,
                   Element("li", Empty, <<"one">>),
                   Element("li", Empty, <<"one">>) \o Element("li", Empty, <<"two">>)}}

FontStyles ==
    { Empty,
      <<"font", "-", "size", ":", "3", "2", "p", "x">>,
      <<"color", ":", " ", "#", "3", "3", "3", ";", " ",
        "font", "-", "size", ":", " ", "3", "2", "p", "x", ";">>,
      <<"font", "-", "size", ":", "2", "e", "m">>,
      <<"font", "-", "size", ":", "1", "5", "0", "%">>,
      <<"font", "-", "size", ":", "0">>,
      <<"font", "-", "size", ":", "-", "4", "p", "x">>,
      <<"font", "-", "size", ":", "l", "a", "r", "g", "e">> }

TextTagNames == {"h1", "h2", "h3", "h4", "h5", "h6", "p", "span"}

TextDocs ==
    LET texts == {Element(tag, style, <<"Title">>) : tag \in TextTagNames, style \in FontStyles}
    IN  texts \cup {Element("section", Empty, t) : t \in texts}

StyledDocs == SizedDocs \cup FlexDocs \cup ListDocs \cup TextDocs

InitStyled ==
    /\ html \in StyledDocs
    /\ pc = "idle"
    /\ parsedElements = <<>>
    /\ throwing = {}
    /\ result = Failure("")
    /\ page = <<>>
    /\ posted = <<>>
    /\ Unused

SpecStyled == InitStyled /\ [][Next]_vars

-----------------------------------------------------------------------------
(* The plugin on documents of up to MaxTop top-level containers, flex      *)
(* containers among them                                                   *)

MaxTop == 2

TopFrags ==
    << <<"<", "div", " ", "id", "=", "\"", "b", "\"", " ", "style", "=", "\"",
         "display", ":", "flex", "\"", ">">>
           \o Element("p", Empty, <<"a">>) \o <<"<", "/", "div", ">">>,
       Element("section", Empty, Element("div", Empty, <<"a">>) \o Element("div", Empty, <<"b">>)),
       Element("header", <<"display", ":", "flex", ";", "padding", ":", "8", "p", "x">>,
               Element("p", Empty, <<"a">>) \o Element("p", Empty, <<"b">>)),
       Element("p", Empty, <<"x">>),
       Element("article", Empty,
               Element("nav", Empty, Element("p", Empty, <<"a">>))
                  \o Element("aside", <<"display", ":", "flex">>, <<"b">>)) >>

RECURSIVE Tops(_)
Tops(fs) == IF fs = <<>> THEN <<>> ELSE TopFrags[Head(fs)] \o Tops(Tail(fs))

GroupDocs == {Tops(fs) : fs \in UNION {[1..n -> DOMAIN TopFrags] : n \in 1..MaxTop}}

InitGroups ==
    /\ html \in GroupDocs
    /\ pc = "idle"
    /\ parsedElements = <<>>
    /\ throwing = {}
    /\ result = Failure("")
    /\ page = <<>>
    /\ posted = <<>>
    /\ Unused

SpecGroups == InitGroups /\ [][Next]_vars

-----------------------------------------------------------------------------
(* The parser and the cascade on documents with up to MaxRuleTexts rules,  *)
(* in one style block or in a block each, followed by <p class="a">x</p>.  *)
(* A rule is given with the selector and the declarations it stands for.   *)

MaxRuleTexts == 3

Rule(css, selector, properties) ==
    [text |-> css, selector |-> selector, properties |-> properties]

RuleTexts ==
    << Rule(<<"p", "{", "color", ":", "red", "}">>,
            <<"p">>, <<"color">> :> <<"red">>),
       Rule(<<" ", "p", " ", "{", "width", ":", "wide", ";", "}">>,
            <<"p">>, <<"width">> :> <<"wide">>),
       Rule(<<"p", "{", "color", ":", "blue", ";", "width", ":", "wide", "}">>,
            <<"p">>, <<"color">> :> <<"blue">> @@ <<"width">> :> <<"wide">>),
       Rule(<<"p", "{", " ", "}">>, <<"p">>, EmptyMap),
       Rule(<<".", "a", "{", "color", ":", "red", "}">>,
            <<".", "a">>, <<"color">> :> <<"red">>) >>

RuleSeqs == UNION {[1..n -> DOMAIN RuleTexts] : n \in 1..MaxRuleTexts}

StyleBlock(css) == <<"<", "style", ">">> \o css \o <<"<", "/", "style", ">">>

RECURSIVE RulesText(_)
RulesText(rs) == IF rs = <<>> THEN <<>> ELSE RuleTexts[Head(rs)].text \o RulesText(Tail(rs))

RECURSIVE StyleBlocks(_)
StyleBlocks(rs) ==
    IF rs = <<>> THEN <<>>
    ELSE StyleBlock(RuleTexts[Head(rs)].text) \o StyleBlocks(Tail(rs))

Paragraph == <<"<", "p", " ", "class", "=", "\"", "a", "\"", ">", "x", "<", "/", "p", ">">>

\* the documents with the rules rs
RuleDocsOf(rs) == {StyleBlock(RulesText(rs)) \o Paragraph, StyleBlocks(rs) \o Paragraph}

RuleDocs == UNION {RuleDocsOf(rs) : rs \in RuleSeqs}

InitRules ==
    /\ html \in RuleDocs
    /\ pc = "document"
    /\ cssStyles = Idle /\ parsedElements = Idle
    /\ throwing = Idle /\ result = Idle /\ page = Idle /\ posted = Idle
    /\ elem = Idle /\ combined = Idle /\ text = Idle /\ parsed = Idle
    /\ NoAnalyzer

\* parseHtml from htmlParser.parseHtmlString to the loop over
\* convertToParseElement
ResolveStyles ==
    /\ pc = "document"
    /\ cssStyles' = extractCssStyles(html)
    /\ parsedElements' = parseHtmlStart(html).parsedElements
    /\ pc' = "styled"
    /\ UNCHANGED <<aiSettings, aiAnalyzer, designAnalysis,
                   html, throwing, result, page, posted, elem, combined, text, parsed>>

NextRules == ResolveStyles

SpecRules == InitRules /\ [][NextRules]_vars

-----------------------------------------------------------------------------
(* The parser and the cascade on a div with up to MaxAttrs attributes,     *)
(* after a style block with a rule for #x and a rule for .a.  An attribute *)
(* is given with its name.                                                 *)

MaxAttrs == 3

Attribute(name, source) == [name |-> name, source |-> source]

AttrTexts ==
    << Attribute(<<"id">>, <<" ", "id", "=", "\"", "x", "\"">>),
       Attribute(<<"class">>, <<" ", "class", "=", "\"", "a", "\"">>),
       Attribute(<<"data", "-", "id">>, <<" ", "data", "-", "id", "=", "\"", "x", "\"">>),
       Attribute(<<"data", "-", "class">>, <<" ", "data", "-", "class", "=", "'", "a", "'">>),
       Attribute(<<"title">>, <<" ", "title", "=", "\"", "id", " ", "class", "\"">>),
       Attribute(<<"hidden">>, <<" ", "hidden">>) >>

AttrSeqs == UNION {[1..n -> DOMAIN AttrTexts] : n \in 0..MaxAttrs}

RECURSIVE AttrsText(_)
AttrsText(as) ==
    IF as = <<>> THEN <<>> ELSE AttrTexts[Head(as)].source \o AttrsText(Tail(as))

AttrRules ==
    StyleBlock(<<"#", "x", "{", "color", ":", "red", "}",
                 ".", "a", "{", "width", ":", "wide", "}">>)

\* <style>#x{color:red}.a{width:wide}</style><div attributes>x</div>
AttrDoc(as) ==
    AttrRules \o <<"<", "div">> \o AttrsText(as) \o <<">", "x", "<", "/", "div", ">">>

InitAttributes ==
    /\ html \in {AttrDoc(as) : as \in AttrSeqs}
    /\ pc = "document"
    /\ cssStyles = Idle /\ parsedElements = Idle
    /\ throwing = Idle /\ result = Idle /\ page = Idle /\ posted = Idle
    /\ elem = Idle /\ combined = Idle /\ text = Idle /\ parsed = Idle
    /\ NoAnalyzer

SpecAttributes == InitAttributes /\ [][NextRules]_vars

-----------------------------------------------------------------------------
(* The cascade on its own: one element and one rule table.  A rule gives   *)
(* its own selector as the value of the property it sets, and the inline   *)
(* style gives "inline", so that an effective value names its source.      *)

MaxRules == 2

Selectors ==
    { <<"*">>, <<"div">>, <<".", "a">>, <<".", "b">>, <<".", "a", ".", "b">>,
      <<"#", "x">>, <<"div", ":", "hover">>, <<"p", " ", "div">> }

Props == { <<"color">>, <<"width">> }

Rules == {[selector |-> sel, properties |-> Put(EmptyMap, p, sel)] : sel \in Selectors, p \in Props}

RuleTables ==
    UNION {{t \in [1..n -> Rules] :
               \A i, j \in 1..n : t[i].selector = t[j].selector => i = j} : n \in 0..MaxRules}

ClassAttrs == { Empty, <<"a">>, <<"a", " ", "b">>, <<"c", " ", "b", " ", "a">> }
IdAttrs == { Empty, <<"x">> }
StyleAttrs == { Empty, <<"color", ":", "inline">> }

\* the attributes object: an attribute that is absent has no key
Attributes(class, id, style) ==
    LET given == {a \in {<<<<"class">>, class>>, <<<<"id">>, id>>, <<<<"style">>, style>>} :
                     a[2] # Empty}
    IN  [k \in {a[1] : a \in given} |-> (CHOOSE a \in given : a[1] = k)[2]]

Elements ==
    {[tagName |-> tag, attributes |-> Attributes(class, id, style),
      textContent |-> Empty, children |-> <<>>] :
        tag \in {<<"div">>, <<"p">>}, class \in ClassAttrs, id \in IdAttrs, style \in StyleAttrs}

InitCascade ==
    /\ elem \in Elements
    /\ cssStyles \in RuleTables
    /\ combined = Idle
    /\ pc = "element"
    /\ html = Idle /\ parsedElements = Idle /\ throwing = Idle /\ result = Idle
    /\ page = Idle /\ posted = Idle /\ text = Idle /\ parsed = Idle
    /\ NoAnalyzer

\* htmlParser.convertToParseElement(element, cssStyles)
ConvertElement ==
    /\ pc = "element"
    /\ combined' = convertToParseElement(elem, cssStyles).styles
    /\ pc' = "converted"
    /\ UNCHANGED <<aiSettings, aiAnalyzer, designAnalysis,
                   elem, cssStyles, html, parsedElements, throwing, result, page, posted,
                   text, parsed>>

NextCascade == ConvertElement

SpecCascade == InitCascade /\ [][NextCascade]_vars

-----------------------------------------------------------------------------
(* The two declaration parsers on the same text *)

MaxDeclLen == 5

DeclTokens == {"a", "b", ":", ";", " "}

DeclTexts == UNION {[1..n -> DeclTokens] : n \in 0..MaxDeclLen}

InitDeclarations ==
    /\ text \in DeclTexts
    /\ parsed = Idle
    /\ pc = "text"
    /\ html = Idle /\ parsedElements = Idle /\ throwing = Idle /\ result = Idle
    /\ page = Idle /\ posted = Idle /\ elem = Idle /\ cssStyles = Idle /\ combined = Idle
    /\ NoAnalyzer

\* the text as a style attribute, and as the declaration block of a rule
ParseDeclarationText ==
    /\ pc = "text"
    /\ parsed' = [inline |-> parseInlineStyles(text), rule |-> parseDeclarations(text)]
    /\ pc' = "parsed"
    /\ UNCHANGED <<aiSettings, aiAnalyzer, designAnalysis,
                   text, html, parsedElements, throwing, result, page, posted,
                   elem, cssStyles, combined>>

NextDeclarations == ParseDeclarationText

SpecDeclarations == InitDeclarations /\ [][NextDeclarations]_vars

-----------------------------------------------------------------------------
(* The color resolver on hex strings *)

MaxHexLen == 6

HexChars == {"0", "8", "f", "F"}

HexTexts ==
    {prefix \o digits : prefix \in {Empty, <<"#">>},
                        digits \in UNION {[1..n -> HexChars] : n \in 1..MaxHexLen}}

InitColor ==
    /\ text \in HexTexts
    /\ parsed = Idle
    /\ pc = "text"
    /\ html = Idle /\ parsedElements = Idle /\ throwing = Idle /\ result = Idle
    /\ page = Idle /\ posted = Idle /\ elem = Idle /\ cssStyles = Idle /\ combined = Idle
    /\ NoAnalyzer

\* styleProcessor.parseColor(text)
ResolveColor ==
    /\ pc = "text"
    /\ parsed' = parseColor(text)
    /\ pc' = "resolved"
    /\ UNCHANGED <<aiSettings, aiAnalyzer, designAnalysis,
                   text, html, parsedElements, throwing, result, page, posted,
                   elem, cssStyles, combined>>

NextColor == ResolveColor

SpecColor == InitColor /\ [][NextColor]_vars

-----------------------------------------------------------------------------
(* The color resolver on rgb() and rgba() strings *)

ChannelTexts ==
    { <<"0">>, <<"1", "2", "8">>, <<"2", "5", "5">>, <<"2", "5", "6">>, <<"9", "9", "9">> }

AlphaTexts == { Empty, <<",", "0", ".", "5">> }

RgbTexts ==
    {<<"r", "g", "b">> \o (IF alpha = Empty THEN Empty ELSE <<"a">>) \o <<"(">>
        \o r \o <<",">> \o g \o <<",", " ">> \o b \o alpha \o <<")">> :
        r \in ChannelTexts, g \in ChannelTexts, b \in ChannelTexts, alpha \in AlphaTexts}

InitChannels ==
    /\ text \in RgbTexts
    /\ parsed = Idle
    /\ pc = "text"
    /\ html = Idle /\ parsedElements = Idle /\ throwing = Idle /\ result = Idle
    /\ page = Idle /\ posted = Idle /\ elem = Idle /\ cssStyles = Idle /\ combined = Idle
    /\ NoAnalyzer

SpecChannels == InitChannels /\ [][NextColor]_vars

-----------------------------------------------------------------------------
(* The shadow resolver on box-shadow values: three lengths and a color,    *)
(* with or without a spread, an inset keyword, a second shadow             *)

Space == <<" ">>

Lengths == { <<"0", "p", "x">>, <<"2", "p", "x">>, <<"1", "0", "p", "x">> }

Blurs == { <<"4", "p", "x">>, <<"4">> }

ShadowColors ==
    { <<"r", "e", "d">>, <<"#", "0", "0", "0">>,
      <<"r", "g", "b", "a", "(", "0", ",", "0", ",", "0", ",", "0", ".", "5", ")">>,
      <<"n", "o", "n", "e">> }

\* <offsetX>px <offsetY>px <blur>px <color>
SingleShadow(x, y, blur, color) == x \o Space \o y \o Space \o blur \o Space \o color

Spreads == { Empty, <<"1", "p", "x", " ">> }

Leads == { Empty, <<"i", "n", "s", "e", "t", " ">> }

Trails ==
    { Empty, <<" ", "i", "n", "s", "e", "t">>,
      <<",", " ", "1", "p", "x", " ", "1", "p", "x", " ", "2", "p", "x", " ", "r", "e", "d">> }

ShadowTexts ==
    {lead \o SingleShadow(x, y, blur, spread \o color) \o trail :
        lead \in Leads, x \in Lengths, y \in Lengths, blur \in Blurs,
        spread \in Spreads, color \in ShadowColors, trail \in Trails}

InitShadow ==
    /\ text \in ShadowTexts
    /\ parsed = Idle
    /\ pc = "text"
    /\ html = Idle /\ parsedElements = Idle /\ throwing = Idle /\ result = Idle
    /\ page = Idle /\ posted = Idle /\ elem = Idle /\ cssStyles = Idle /\ combined = Idle
    /\ NoAnalyzer

\* styleProcessor.parseBoxShadow(text)
ResolveShadow ==
    /\ pc = "text"
    /\ parsed' = parseBoxShadow(text)
    /\ pc' = "shadowed"
    /\ UNCHANGED <<aiSettings, aiAnalyzer, designAnalysis,
                   text, html, parsedElements, throwing, result, page, posted,
                   elem, cssStyles, combined>>

NextShadow == ResolveShadow

SpecShadow == InitShadow /\ [][NextShadow]_vars

-----------------------------------------------------------------------------
(* The two length parsers on the same text: a number and a unit, or a word *)

NumberTexts ==
    { <<"0">>, <<"2">>, <<"1", "0">>, <<"1", ".", "5">>, <<".", "5">>, <<"-", "3">>,
      <<" ", "1", "2">>, <<"1", "e", "2">> }

UnitTexts ==
    { Empty, <<"p", "x">>, <<"e", "m">>, <<"r", "e", "m">>, <<"%">>, <<"v", "h">>,
      <<"v", "w">>, <<"p", "t">> }

WordTexts ==
    { <<"a", "b", "c">>, <<"a", "u", "t", "o">>, <<"p", "x">>, <<"-">>, <<".">>,
      <<"l", "a", "r", "g", "e">>, <<"X", "X", "-", "S", "M", "A", "L", "L">>,
      <<"x", "-", "l", "a", "r", "g", "e">>, <<"s", "m", "a", "l", "l", "e", "r">> }

SizeTexts == {Empty} \cup {n \o u : n \in NumberTexts, u \in UnitTexts} \cup WordTexts

InitSizes ==
    /\ text \in SizeTexts
    /\ parsed = Idle
    /\ pc = "text"
    /\ html = Idle /\ parsedElements = Idle /\ throwing = Idle /\ result = Idle
    /\ page = Idle /\ posted = Idle /\ elem = Idle /\ cssStyles = Idle /\ combined = Idle
    /\ NoAnalyzer

\* styleProcessor.parseSize(text)
ParseSize ==
    /\ pc = "text"
    /\ parsed' = parseSize(text)
    /\ pc' = "size"
    /\ UNCHANGED <<aiSettings, aiAnalyzer, designAnalysis,
                   text, html, parsedElements, throwing, result, page, posted,
                   elem, cssStyles, combined>>

\* styleProcessor.parseFontSize(text)
ParseFontSize ==
    /\ pc = "text"
    /\ parsed' = parseFontSize(text)
    /\ pc' = "fontSize"
    /\ UNCHANGED <<aiSettings, aiAnalyzer, designAnalysis,
                   text, html, parsedElements, throwing, result, page, posted,
                   elem, cssStyles, combined>>

NextSizes == ParseSize \/ ParseFontSize

SpecSizes == InitSizes /\ [][NextSizes]_vars

-----------------------------------------------------------------------------
(* The parser on its own: documents of up to MaxParts pieces, with and     *)
(* without a body                                                          *)

MaxParts == 4

Parts ==
    << <<"<", "body", ">">>,
       <<"<", "/", "body", ">">>,
       <<"<", "BODY", " ", "class", "=", "\"", "x", "\"", ">">>,
       <<"<", "p", ">", "a", "<", "/", "p", ">">>,
       <<"<", "h1", ">", "b", "<", "/", "h1", ">">>,
       <<"text">> >>

RECURSIVE Joined(_)
Joined(ps) == IF ps = <<>> THEN <<>> ELSE Parts[Head(ps)] \o Joined(Tail(ps))

BodyDocs == {Joined(ps) : ps \in UNION {[1..n -> DOMAIN Parts] : n \in 0..MaxParts}}

InitParser ==
    /\ html \in BodyDocs
    /\ pc = "document"
    /\ parsedElements = Idle
    /\ throwing = Idle /\ result = Idle /\ page = Idle /\ posted = Idle
    /\ Unused

\* htmlParser.parseHtmlString(html)
ParseHtmlString ==
    /\ pc = "document"
    /\ parsedElements' = parseHtmlString(html)
    /\ pc' = "scanned"
    /\ UNCHANGED <<aiSettings, aiAnalyzer, designAnalysis,
                   html, throwing, result, page, posted, elem, cssStyles, combined,
                   text, parsed>>

NextParser == ParseHtmlString

SpecParser == InitParser /\ [][NextParser]_vars

-----------------------------------------------------------------------------
(* AIAnalyzer and the AI settings of a message.  The documents and the     *)
(* preferences are spelled by their characters, as btoa reads them.        *)

\* the printable ASCII characters, in the order of their codes from 32 on
\* (the grave accent by its name)
Ascii ==
    <<" ", "!", "\"", "#", "$", "%", "&", "'", "(", ")", "*", "+", ",", "-", ".", "/",
       "0", "1", "2", "3", "4", "5", "6", "7", "8", "9", ":", ";", "<", "=", ">", "?",
       "@", "A", "B", "C", "D", "E", "F", "G", "H", "I", "J", "K", "L", "M", "N", "O",
       "P", "Q", "R", "S", "T", "U", "V", "W", "X", "Y", "Z", "[", "\\", "]", "^", "_",
       "grave", "a", "b", "c", "d", "e", "f", "g", "h", "i", "j", "k", "l", "m", "n", "o",
       "p", "q", "r", "s", "t", "u", "v", "w", "x", "y", "z", "{", "|", "}", "~">>

\* String.prototype.charCodeAt; a character that is not in the table stands
\* for one outside Latin-1
\* where each character stands in the table
IndexOf ==
    [c \in {Ascii[k] : k \in DOMAIN Ascii} |-> CHOOSE k \in DOMAIN Ascii : Ascii[k] = c]

charCode(c) == IF c \in DOMAIN IndexOf THEN 31 + IndexOf[c] ELSE 20013

\* the base64 digits of a sequence of bytes, each digit by its value, 64
\* for the padding "="
RECURSIVE base64(_)
base64(bytes) ==
    IF Len(bytes) = 0 THEN <<>>
    ELSE IF Len(bytes) = 1
    THEN <<bytes[1] \div 4, (bytes[1] % 4) * 16, 64, 64>>
    ELSE IF Len(bytes) = 2
    THEN <<bytes[1] \div 4, (bytes[1] % 4) * 16 + bytes[2] \div 16, (bytes[2] % 16) * 4, 64>>
    ELSE <<bytes[1] \div 4,
           (bytes[1] % 4) * 16 + bytes[2] \div 16,
           (bytes[2] % 16) * 4 + bytes[3] \div 64,
           bytes[3] % 64>> \o base64(SubSeq(bytes, 4, Len(bytes)))

\* btoa(s): throws for a character above 255
btoa(s) ==
    IF \E k \in DOMAIN s : charCode(s[k]) > 255 THEN [threw |-> TRUE, value |-> <<>>]
    ELSE [threw |-> FALSE, value |-> base64([k \in DOMAIN s |-> charCode(s[k])])]

\* s.substring(0, end)
substring(s, end) == SubSeq(s, 1, Min(Len(s), end))

\* no userPreferences
Undefined == [defined |-> FALSE, componentStyle |-> Empty]

\* the preferences with componentStyle and targetPlatform: componentStyle is Empty for
\* undefined
UserPreferences(componentStyle) == [defined |-> TRUE, componentStyle |-> componentStyle]

\* JSON.stringify(userPreferences), which leaves an undefined property out
stringify(userPreferences) ==
    <<"{">>
      \o (IF userPreferences.componentStyle = Empty THEN Empty
          ELSE <<"\"", "c", "o", "m", "p", "o", "n", "e", "n", "t", "S", "t", "y", "l", "e", "\"", ":", "\"">>
                 \o userPreferences.componentStyle \o <<"\"", ",">>)
      \o <<"\"", "t", "a", "r", "g", "e", "t", "P", "l", "a", "t", "f", "o", "r", "m", "\"", ":", "\"", "w", "e", "b", "\"", "}">>

\* AIAnalyzer.generateCacheKey
generateCacheKey(htmlContent, userPreferences) ==
    [threw |-> btoa(substring(htmlContent, 1000)
                     \o (IF userPreferences.defined THEN stringify(userPreferences)
                         ELSE Empty)).threw,
     value |-> substring(btoa(substring(htmlContent, 1000)
                               \o (IF userPreferences.defined
                                   THEN stringify(userPreferences) ELSE Empty)).value, 32)]

\* the aiConfig of main.ts as the plugin starts
LocalConfig == [model |-> "local", apiKey |-> ""]

\* updateAIConfig(settings); an apiKey of null is ""
updateAIConfig(config, settings) ==
    IF settings.enabled /\ settings.apiKey # "" /\ settings.model # "local"
    THEN [model |-> settings.model, apiKey |-> settings.apiKey]
    ELSE LocalConfig

\* if (msg.aiSettings) updateAIConfig(msg.aiSettings)
configured(config, settings) ==
    IF settings.present THEN updateAIConfig(config, settings) ELSE config

\* the userPreferences parseHtml builds: only if (aiSettings?.enabled)
preferencesOf(settings) ==
    IF settings.present /\ settings.enabled
    THEN UserPreferences(IF settings.designPreference = <<"a", "u", "t", "o">> THEN Empty
                         ELSE settings.designPreference)
    ELSE Undefined

\* a DesignAnalysis, as far as the model goes: who made it and its grouping
Analysis(by, grouping) == [by |-> by, grouping |-> grouping]

\* analyzeWithRules(htmlContent, elements, userPreferences): of the elements alone
analyzeWithRules(elements) == Analysis("rules", analyzeGrouping(elements, 1))

\* what analyzeHTML returns: whether it threw, the analysis, where it came
\* from, and the analyzer afterwards
Analysed(threw, from, analysis, analyzer) ==
    [threw |-> threw, from |-> from, analysis |-> analysis, analyzer |-> analyzer]

\* this.cache.set(cacheKey, analysis); the entry remembers the arguments of
\* the call that stored it
cacheSet(analyzer, key, analysis, htmlContent, userPreferences) ==
    [analyzer EXCEPT !.cache = Put(@, key, [analysis |-> analysis,
                                             htmlContent |-> htmlContent,
                                             userPreferences |-> userPreferences])]

\* callAIAPI reaches fetch for the OpenAI models only; callClaude throws
callsOut(config) == config.model \in {"gpt-4", "gpt-3.5-turbo"}

\* analyzeWithAI in the try block of analyzeHTML.  The outcome of the call:
\* "answered" (an analysis is read from the response), "unparsable"
\* (parseAIResponse falls back to the rule engine), "failed" (fetch or the
\* response throws: analyzeHTML falls back to the rule engine, storing
\* nothing).
analyzeWithAI(analyzer, key, htmlContent, elements, userPreferences, settings, outcome) ==
    IF ~callsOut(analyzer.config)
    THEN Analysed(FALSE, "analyzer", analyzeWithRules(elements), analyzer)
    ELSE IF outcome = "failed"
    THEN Analysed(FALSE, "analyzer", analyzeWithRules(elements),
                  [analyzer EXCEPT !.called = @ \cup {[html |-> htmlContent,
                                                       aiSettings |-> settings]}])
    ELSE Analysed(FALSE, "analyzer",
                  IF outcome = "answered" THEN Analysis("ai", <<>>)
                  ELSE analyzeWithRules(elements),
                  cacheSet([analyzer EXCEPT !.called = @ \cup {[html |-> htmlContent,
                                                                aiSettings |-> settings]}],
                           key,
                           IF outcome = "answered" THEN Analysis("ai", <<>>)
                           ELSE analyzeWithRules(elements),
                           htmlContent, userPreferences))

\* analyzeHTML with the cache key computed; enableCache and fallbackToRules
\* are true
analyzeHTMLKeyed(analyzer, key, htmlContent, elements, userPreferences, settings, outcome) ==
    IF key.threw THEN Analysed(TRUE, "default", Analysis("default", <<>>), analyzer)
    ELSE IF key.value \in DOMAIN analyzer.cache
    THEN Analysed(FALSE, "cache", analyzer.cache[key.value].analysis, analyzer)
    ELSE IF analyzer.config.model = "local" \/ analyzer.config.apiKey = ""
    THEN Analysed(FALSE, "analyzer", analyzeWithRules(elements),
                  cacheSet(analyzer, key.value, analyzeWithRules(elements),
                           htmlContent, userPreferences))
    ELSE analyzeWithAI(analyzer, key.value, htmlContent, elements, userPreferences,
                       settings, outcome)

\* AIAnalyzer.analyzeHTML(htmlContent, elements, userPreferences); settings
\* are those of the message, kept with the record of an external call
analyzeHTML(analyzer, htmlContent, elements, userPreferences, settings, outcome) ==
    analyzeHTMLKeyed(analyzer, generateCacheKey(htmlContent, userPreferences),
                     htmlContent, elements, userPreferences, settings, outcome)

\* the handler and parseHtml up to the end of the analysis step, r being
\* what parseHtml did before it: without elements parseHtml returns before
\* the analysis
analysisStep(analyzer, htmlContent, r, settings, outcome) ==
    IF r.failed THEN Analysed(FALSE, "none", Analysis("none", <<>>), analyzer)
    ELSE analyzeHTML(analyzer, htmlContent, r.parsedElements, preferencesOf(settings),
                     settings, outcome)

MaxMessages == 2

\* no msg.aiSettings
Absent ==
    [present |-> FALSE, enabled |-> FALSE, model |-> "local", apiKey |-> "",
     designPreference |-> <<"a", "u", "t", "o">>]

Settings(enabled, model, apiKey, designPreference) ==
    [present |-> TRUE, enabled |-> enabled, model |-> model, apiKey |-> apiKey,
     designPreference |-> designPreference]

AISettings ==
    { Absent,
      Settings(FALSE, "local", "", <<"a", "u", "t", "o">>),
      Settings(TRUE, "local", "", <<"a", "u", "t", "o">>),
      Settings(TRUE, "local", "", <<"m", "i", "n", "i", "m", "a", "l">>),
      Settings(TRUE, "local", "", <<"d", "e", "t", "a", "i", "l", "e", "d">>),
      Settings(TRUE, "gpt-4", "sk", <<"a", "u", "t", "o">>),
      Settings(TRUE, "gpt-4", "", <<"a", "u", "t", "o">>),
      Settings(FALSE, "gpt-4", "sk", <<"a", "u", "t", "o">>),
      Settings(TRUE, "claude-3", "sk", <<"a", "u", "t", "o">>) }

AIDocs ==
    { <<"<", "p", ">", "a", "<", "/", "p", ">">>,
      <<"<", "p", ">", "a", "<", "/", "p", ">", "<", "p", ">", "b", "<", "/", "p", ">", "<", "p", ">", "c", "<", "/", "p", ">", "<", "p", ">", "d", "<", "/", "p", ">">>,
      <<"<", "p", ">", "a", "<", "/", "p", ">", "<", "p", ">", "b", "<", "/", "p", ">", "<", "p", ">", "c", "<", "/", "p", ">", "<", "b", ">", "e", "<", "/", "b", ">">>,
      <<"a">>,
      <<"<", "p", ">", "U+4E2D", "<", "/", "p", ">">> }

Outcomes == {"answered", "unparsable", "failed"}

\* parseHtml up to the analysis, for each of the documents
StartOf == [doc \in AIDocs |-> parseHtmlStart(doc)]

InitAI ==
    /\ html = <<>>
    /\ aiSettings = Absent
    /\ aiAnalyzer = [config |-> LocalConfig, cache |-> <<>>, called |-> {}]
    /\ designAnalysis = Analysed(FALSE, "none", Analysis("none", <<>>), 0)
    /\ posted = <<>>
    /\ pc = "idle"
    /\ parsedElements = Idle /\ throwing = Idle /\ result = Idle /\ page = Idle
    /\ elem = Idle /\ cssStyles = Idle /\ combined = Idle /\ text = Idle /\ parsed = Idle

\* what the analysis step leaves: the analyzer, and the analysis with where
\* it came from
Analysing(a) ==
    /\ aiAnalyzer' = a.analyzer
    /\ designAnalysis' = [a EXCEPT !.analyzer = 0]

\* figma.ui.onmessage, msg.type === 'parse-html', up to the end of the
\* analysis step of parseHtml; of the messages posted, the first
OnParseHtmlWithSettings ==
    /\ pc = "idle"
    /\ Len(posted) < MaxMessages
    /\ \E doc \in AIDocs, settings \in AISettings, outcome \in Outcomes :
          /\ html' = doc
          /\ aiSettings' = settings
          /\ Analysing(analysisStep([aiAnalyzer EXCEPT !.config = configured(@, settings)],
                                    doc, StartOf[doc], settings, outcome))
    /\ posted' = Append(posted, Progress)
    /\ UNCHANGED <<pc, parsedElements, throwing, result, page, elem, cssStyles, combined,
                   text, parsed>>

NextAI == OnParseHtmlWithSettings

SpecAI == InitAI /\ [][NextAI]_vars

-----------------------------------------------------------------------------
(* What the claims speak of *)

\* the nodes of a forest, at any depth
RECURSIVE AllNodes(_)
AllNodes(nodes) ==
    UNION {{nodes[k]} \cup AllNodes(nodes[k].children) : k \in DOMAIN nodes}

\* the element at a path
RECURSIVE ElementAt(_, _)
ElementAt(elements, path) ==
    IF Len(path) = 1 THEN elements[path[1]]
    ELSE ElementAt(elements[path[1]].children, Tail(path))

\* the src of the children of a node that were created for an element
ChildSrcs(node) ==
    LET made == SelectSeq(node.children, LAMBDA c : c.src # <<>>)
    IN  [k \in DOMAIN made |-> made[k].src]

\* the document as HTML reads it: every "<name ...>" opens an element that the
\* matching "</name>" closes, "<name .../>" and the void tags are elements
\* without content.  [ok, tree, void]: whether the tags pair up, the forest of
\* [tag, children], whether a void tag stands without its slash.
VoidTags == {"input", "img", "br", "hr"}

RECURSIVE ReadHtml(_, _, _, _)
ReadHtml(s, i, stack, void) ==
    LET top == stack[Len(stack)]
        g == IndexOfFrom(s, <<">">>, i)
        leaf == [tag |-> <<s[i + 1]>>, children |-> <<>>]
        addTo(frame, child) == [frame EXCEPT !.children = Append(@, child)]
        under == SubSeq(stack, 1, Len(stack) - 1)
    IN  IF i > Len(s)
        THEN [ok |-> Len(stack) = 1, tree |-> stack[1].children, void |-> void]
        ELSE IF s[i] # "<" THEN ReadHtml(s, i + 1, stack, void)
        ELSE IF g = 0 \/ i + 1 > Len(s) THEN [ok |-> FALSE, tree |-> <<>>, void |-> void]
        ELSE IF s[i + 1] = "/"
        THEN IF Len(stack) > 1 /\ top.tag = <<s[i + 2]>>
             THEN ReadHtml(s, g + 1,
                           [under EXCEPT ![Len(under)] = addTo(@, top)], void)
             ELSE [ok |-> FALSE, tree |-> <<>>, void |-> void]
        ELSE IF s[g - 1] = "/"
        THEN ReadHtml(s, g + 1, [stack EXCEPT ![Len(stack)] = addTo(@, leaf)], void)
        ELSE IF s[i + 1] \in VoidTags
        THEN ReadHtml(s, g + 1, [stack EXCEPT ![Len(stack)] = addTo(@, leaf)], TRUE)
        ELSE ReadHtml(s, g + 1, Append(stack, [tag |-> <<s[i + 1]>>, children |-> <<>>]), void)

AsHtml(s) == ReadHtml(s, 1, <<[tag |-> <<"#document">>, children |-> <<>>]>>, FALSE)

RECURSIVE ShapeOf(_)
ShapeOf(elements) ==
    [k \in DOMAIN elements |->
        [tag |-> elements[k].tagName, children |-> ShapeOf(elements[k].children)]]

\* C2: for a well-formed document (every tag closed or self-closed), the
\* parsed elements are the elements nested in the source, with the same
\* children in the same order, also when a child has its parent's tag name
C2_ChildrenAreTheNestedElements ==
    (pc = "done" /\ AsHtml(html).ok /\ ~AsHtml(html).void)
        => ShapeOf(result.elements) = AsHtml(html).tree

\* C3: an input written as a void tag without slash and without closing tag
\* is among the parsed elements and is emitted as an Input node
C3_VoidInputIsEmitted ==
    (/\ pc = "done"
     /\ throwing = {}
     /\ AsHtml(html).ok
     /\ \E k \in DOMAIN AsHtml(html).tree : AsHtml(html).tree[k].tag = <<"input">>)
        => /\ \E k \in DOMAIN result.elements : result.elements[k].tagName = <<"input">>
           /\ \E k \in DOMAIN page : page[k].variant = "Input"

Succeeds(element, path) == ~createFigmaNodeFromElement(element, path, throwing).isNull

\* C4: under every emitted node there is one child node for each child of its
\* element whose emission succeeded, and no other (nodes the factory adds on
\* its own, captions and bullets, are not counted)
C4_OneNodePerChildElement ==
    pc = "done" =>
        \A node \in AllNodes(page) :
            node.src # <<>> =>
                LET children == ElementAt(result.elements, node.src).children
                IN  Len(ChildSrcs(node)) =
                        Cardinality({k \in DOMAIN children :
                                        Succeeds(children[k], Append(node.src, k))})

ListTags == {<<"ul">>, <<"ol">>}

EmitsChildren(tag) ==
    tag \notin TextTags \cup ListTags
                \cup {<<"button">>, <<"input">>, <<"textarea">>, <<"img">>, <<"li">>}

Prefixes(path) == {SubSeq(path, 1, n) : n \in 1..(Len(path) - 1)}

\* C5: when the creation of exactly one element throws, every container and
\* every list that does not throw itself, and whose ancestors are containers,
\* is emitted with its other children in source order
C5_ParentSurvivesChildFailure ==
    (pc = "done" /\ Cardinality(throwing) = 1) =>
        \A q \in PathsOf(result.elements, <<>>) :
            LET e == ElementAt(result.elements, q)
                others == SelectSeq([k \in DOMAIN e.children |-> Append(q, k)],
                                    LAMBDA c : c \notin throwing)
            IN  (/\ q \notin throwing
                 /\ EmitsChildren(e.tagName) \/ e.tagName \in ListTags
                 /\ \A a \in Prefixes(q) :
                        /\ a \notin throwing
                        /\ EmitsChildren(ElementAt(result.elements, a).tagName))
                    => \E node \in AllNodes(page) :
                            node.src = q /\ ChildSrcs(node) = others

\* C6: the page holds the nodes of exactly the top-level elements whose
\* creation succeeded, in source order; parseHtml fails iff there is none,
\* and then the page is left as it was
C6_TopLevelFailureIsSkipped ==
    pc = "done" =>
        LET made == SelectSeq([k \in DOMAIN result.elements |-> k],
                              LAMBDA k : Succeeds(result.elements[k], <<k>>))
        IN  /\ [k \in DOMAIN page |-> page[k].src] = [k \in DOMAIN made |-> <<made[k]>>]
            /\ result.success = FALSE <=> made = <<>>
            /\ result.success = FALSE => page = <<>>

C6_Witness ==
    /\ pc = "done"
    /\ Len(result.elements) >= 2
    /\ <<1>> \in throwing
    /\ result.success
    /\ page[1].src = <<2>>

\* C7: a blank document, and one in which the parser finds no element, fail
\* with an error message and an empty element list; nothing is created or
\* appended
C7_EmptyInputFails ==
    (pc = "done" /\ (trim(html) = Empty \/ Len(parseHtmlString(html)) = 0))
        => /\ result.success = FALSE
           /\ result.error # ""
           /\ result.elements = <<>>
           /\ page = <<>>

C7_Witness ==
    /\ pc = "done"
    /\ html = <<"just", " ", "text">>
    /\ result.success = FALSE
    /\ page = <<>>

\* the class tokens of the element
ClassSet(element) ==
    LET classes == SplitNonBlank(Attr(element, "class"), " ")
    IN  {classes[k] : k \in DOMAIN classes}

\* the class tokens of a selector made of class tokens only, {} for any other
ClassTokens(selector) ==
    IF Len(selector) >= 2 /\ Len(selector) % 2 = 0
          /\ \A k \in DOMAIN selector : (k % 2 = 1) <=> (selector[k] = ".")
    THEN {selector[k] : k \in {j \in DOMAIN selector : j % 2 = 0}}
    ELSE {}

\* the precedence level at which a selector bears on an element, 0 if it does
\* not match
Level(selector, element) ==
    IF selector = <<"*">> THEN 1
    ELSE IF selector = element.tagName THEN 2
    ELSE IF ClassTokens(selector) # {} /\ ClassTokens(selector) \subseteq ClassSet(element) THEN 3
    ELSE IF Attr(element, "id") # Empty /\ selector = <<"#">> \o Attr(element, "id") THEN 4
    ELSE IF selector = element.tagName \o <<":", "hover">> THEN 5
    ELSE IF Len(selector) = 3 /\ selector[2] = " " /\ selector[3] = element.tagName[1] THEN 6
    ELSE 0

\* the sources that set property p: [level, value]
SourcesOf(p) ==
    {[level |-> Level(cssStyles[k].selector, elem), value |-> cssStyles[k].properties[p]] :
        k \in {j \in DOMAIN cssStyles : /\ Level(cssStyles[j].selector, elem) > 0
                                        /\ p \in DOMAIN cssStyles[j].properties}}
    \cup (IF Attr(elem, "style") # Empty /\ p = <<"color">>
          THEN {[level |-> 7, value |-> <<"inline">>]} ELSE {})

\* C1: the effective value of a property is the value of a source of the
\* highest precedence level that sets it (universal < tag < class < id <
\* tag:hover < descendant < inline), and a property no source sets has none
C1_HighestPrecedenceSourceWins ==
    pc = "converted" =>
        \A p \in Props :
            IF SourcesOf(p) = {} THEN p \notin DOMAIN combined
            ELSE /\ p \in DOMAIN combined
                 /\ \E src \in SourcesOf(p) :
                        /\ src.value = combined[p]
                        /\ \A other \in SourcesOf(p) : other.level <= src.level

\* tag, class and inline style all set color, another property comes from
\* the tag rule alone
C1_Witness ==
    /\ pc = "converted"
    /\ {src.level : src \in SourcesOf(<<"color">>)} = {3, 7}
    /\ {src.level : src \in SourcesOf(<<"width">>)} = {2}
    /\ combined[<<"color">>] = <<"inline">>
    /\ combined[<<"width">>] = <<"div">>

Compound == <<".", "a", ".", "b">>

\* C8: the properties of the compound selector .a.b reach the element exactly
\* when a and b are both among its classes, in whatever order the class
\* attribute lists them: with a class missing no property has the rule's
\* value, with both present each property of the rule has it unless another
\* source of class level or above sets that property
C8_CompoundClassSelector ==
    (pc = "converted" /\ Has(cssStyles, Compound)) =>
        LET properties == Get(cssStyles, Compound)
        IN  IF {<<"a">>, <<"b">>} \subseteq ClassSet(elem)
            THEN \A p \in DOMAIN properties :
                    \/ p \in DOMAIN combined /\ combined[p] = properties[p]
                    \/ \E src \in SourcesOf(p) : src.level >= 3 /\ src.value # properties[p]
            ELSE \A p \in DOMAIN combined : combined[p] # Compound

\* classes "c b a" pick up .a.b
C8_Witness ==
    /\ pc = "converted"
    /\ Has(cssStyles, Compound)
    /\ Attr(elem, "class") = <<"c", " ", "b", " ", "a">>
    /\ \E p \in DOMAIN combined : combined[p] = Compound

\* C9: a style attribute and a rule's declaration block with the same text
\* give the same property -> value map
C9_InlineParsedAsRuleBlock ==
    pc = "parsed" => parsed.inline = parsed.rule

\* the hex digits of a color text, and the color they denote: #rgb stands for
\* #rrggbb
DigitsOf(s) == IF s # Empty /\ s[1] = "#" THEN Tail(s) ELSE s

Denoted(s) ==
    LET d == DigitsOf(s)
        short(k) == 17 * HexVal(d[k])
        long(k) == 16 * HexVal(d[k]) + HexVal(d[k + 1])
    IN  IF Len(d) = 3 THEN RGB(short(1), short(2), short(3))
        ELSE RGB(long(1), long(3), long(5))

\* C10: a text of three or six hex digits, in either case, with or without
\* the leading "#", resolves to the color it denotes
C10_HexFormsResolve ==
    (pc = "resolved" /\ Len(DigitsOf(text)) \in {3, 6}) => parsed = Denoted(text)


\* C11: a color text that is no hex form of three or six digits (and no
\* rgb(), hsl() or named color) resolves to null, and never to black
C11_UnresolvableIsNull ==
    (pc = "resolved" /\ Len(DigitsOf(text)) \notin {3, 6}) => parsed = Null

\* C12: every component of a resolved color lies within [0, 1], that is, its
\* numerator over 255 lies within 0..255
C12_ComponentsWithinUnit ==
    (pc = "resolved" /\ ~parsed.isNull) =>
        /\ parsed.r \in 0..255
        /\ parsed.g \in 0..255
        /\ parsed.b \in 0..255


\* what the number texts denote, in ten-thousandths
Denotes ==
    <<"0">> :> 0 @@ <<"2">> :> 20000 @@ <<"1", "0">> :> 100000 @@
    <<"1", ".", "5">> :> 15000 @@ <<".", "5">> :> 5000 @@ <<"-", "3">> :> -30000 @@
    <<" ", "1", "2">> :> 120000 @@ <<"1", "e", "2">> :> 1000000

\* what a unit multiplies by, in hundredths
Hundredths ==
    Empty :> 100 @@ <<"p", "x">> :> 100 @@ <<"e", "m">> :> 1600 @@ <<"r", "e", "m">> :> 1600 @@
    <<"%">> :> 100 @@ <<"v", "h">> :> 1000 @@ <<"v", "w">> :> 1400 @@ <<"p", "t">> :> 133

\* C13: parseSize is total: a number with the unit em or rem is multiplied
\* by 16, with vh by 10, with vw by 14, with pt by 1.33, and is left as it is
\* with %, with another unit or with none; an empty or non-numeric text
\* gives 0
C13_ParseSizeByUnit ==
    pc = "size" =>
        /\ parsed \in Int
        /\ \A n \in NumberTexts, u \in UnitTexts :
               text = n \o u => parsed * 100 = Denotes[n] * Hundredths[u]
        /\ text \in {Empty} \cup WordTexts => parsed = 0

\* "1.5rem" is 24, "10pt" is 13.3
C13_Witness ==
    /\ pc = "size"
    /\ \/ text = <<"1", ".", "5", "r", "e", "m">> /\ parsed = 240000
       \/ text = <<"1", "0", "p", "t">> /\ parsed = 133000

\* C14: for a numeric font-size text, with the unit em, rem, %, vh, vw, pt or
\* none, parseFontSize returns the number parseSize returns
C14_FontSizeAsSize ==
    (pc = "fontSize" /\ \E n \in NumberTexts, u \in UnitTexts : text = n \o u)
        => parsed = parseSize(text)

-----------------------------------------------------------------------------
(* The nodes on the page for styled documents *)

\* the top-level element a node of the page was created for
ElementOf(node) == result.elements[node.src[1]]

\* the paths of the children of the element at path that can be created, in
\* source order from child k on
RECURSIVE Creatable(_, _, _)
Creatable(element, path, k) ==
    IF k > Len(element.children) THEN <<>>
    ELSE (IF Append(path, k) \in throwing THEN <<>> ELSE <<Append(path, k)>>)
            \o Creatable(element, path, k + 1)

\* the paths the children of a node were created for
Sources(node) == [k \in DOMAIN node.children |-> node.children[k].src]

InSourceOrder(node, element) == Sources(node) = Creatable(element, node.src, 1)

FlexEmitted(node, element) ==
    /\ node.variant = "Container"
    /\ node.layoutMode = "VERTICAL"
          <=> Style(element, <<"flex", "-", "direction">>)
                 \in {<<"column">>, <<"column", "-", "reverse">>}
    /\ node.layoutMode \in {"VERTICAL", "HORIZONTAL"}
    /\ node.primaryAxisAlignItems =
          (CASE Style(element, <<"justify", "-", "content">>) = <<"center">> -> "CENTER"
             [] Style(element, <<"justify", "-", "content">>)
                   \in {<<"flex", "-", "end">>, <<"end">>} -> "MAX"
             [] Style(element, <<"justify", "-", "content">>)
                   \in {<<"space", "-", "between">>, <<"space", "-", "around">>,
                        <<"space", "-", "evenly">>} -> "SPACE_BETWEEN"
             [] OTHER -> "MIN")
    /\ node.counterAxisAlignItems =
          (CASE Style(element, <<"align", "-", "items">>) = <<"center">> -> "CENTER"
             [] Style(element, <<"align", "-", "items">>)
                   \in {<<"flex", "-", "end">>, <<"end">>} -> "MAX"
             [] OTHER -> "MIN")
    /\ node.itemSpacing = (IF Style(element, <<"gap">>) = Empty THEN Px(12)
                           ELSE parseSize(Style(element, <<"gap">>)))
    /\ InSourceOrder(node, element)

\* C15: a container with display: flex comes out of the node factory, and in
\* these documents onto the page, with the direction vertical exactly for
\* flex-direction column and column-reverse and horizontal otherwise, the
\* main-axis alignment of justify-content, the cross-axis alignment of
\* align-items, the gap parseSize(gap) or 12, and its children in source order
C15_FlexContainerEmitted ==
    pc = "done" =>
        \A k \in DOMAIN page :
            Style(ElementOf(page[k]), <<"display">>) = <<"flex">>
                => FlexEmitted(page[k], ElementOf(page[k]))

\* <div style="display:flex;gap:8px"><button>Go</button><span>Label</span></div>
\* is one horizontal container with the gap 8 and a Button, then a Text
C15_Witness ==
    /\ pc = "done"
    /\ html = Element("div", <<"display", ":", "flex", ";", "gap", ":", "8", "p", "x">>,
                      Children(<<1, 2>>))
    /\ Len(page) = 1
    /\ page[1].variant = "Container"
    /\ page[1].layoutMode = "HORIZONTAL"
    /\ page[1].itemSpacing = Px(8)
    /\ [k \in DOMAIN page[1].children |-> page[1].children[k].variant] = <<"Button", "Text">>

\* the frames on the page that createContainerNode positions its children in
\* by hand, with the element each was created for
ManualContainers ==
    {k \in DOMAIN page : page[k].variant = "Container" /\ page[k].layoutMode = "NONE"}

\* C16: a manually positioned container with a max-width style that resolves
\* to a positive length, and without a width style, is at most that wide
C16_MaxWidthCapsWidth ==
    pc = "done" =>
        \A k \in ManualContainers :
            (/\ Style(ElementOf(page[k]), <<"width">>) = Empty
             /\ Style(ElementOf(page[k]), <<"max", "-", "width">>) # Empty
             /\ parseSize(Style(ElementOf(page[k]), <<"max", "-", "width">>)) > 0)
                => page[k].width <= parseSize(Style(ElementOf(page[k]), <<"max", "-", "width">>))

\* C17: a manually positioned container with a min-height style, and without
\* a height style, is at least that high
C17_MinHeightRaisesHeight ==
    pc = "done" =>
        \A k \in ManualContainers :
            (/\ Style(ElementOf(page[k]), <<"height">>) = Empty
             /\ Style(ElementOf(page[k]), <<"min", "-", "height">>) # Empty)
                => page[k].height >= parseSize(Style(ElementOf(page[k]), <<"min", "-", "height">>))

\* the bottom edge of the last child of a node
LastBottom(node) ==
    node.children[Len(node.children)].y + node.children[Len(node.children)].height

\* C18: a manually positioned container with children and without a height
\* style, header and footer included, is at least as high as the bottom edge
\* of its last child
C18_HeightFitsChildren ==
    pc = "done" =>
        \A k \in ManualContainers :
            (/\ Style(ElementOf(page[k]), <<"height">>) = Empty
             /\ Len(page[k].children) > 0)
                => page[k].height >= LastBottom(page[k])

\* the text nodes on the page, at any depth, that were created for an element
ElementTexts == {n \in AllNodes(page) : n.type = "TEXT" /\ n.src # <<>>}

\* the font size the style of a text element asks for, or that of its tag
AskedFontSize(element) ==
    IF /\ Style(element, <<"font", "-", "size">>) # Empty
       /\ parseFontSize(Style(element, <<"font", "-", "size">>)) > 0
    THEN parseFontSize(Style(element, <<"font", "-", "size">>))
    ELSE Px(tagFontSize[element.tagName])

\* C19: a text node on the page has the font size of its element's font-size
\* style when that resolves to a positive number, and the default of its tag
\* (h1 48 ... h6 18, p 16, span 14) only without such a style
C19_StyledFontSizeKept ==
    pc = "done" =>
        \A n \in ElementTexts :
            n.fontSize = AskedFontSize(ElementAt(result.elements, n.src))

\* the tags of a sequence of elements as HTML reads the document
Tags(tree) == [k \in DOMAIN tree |-> tree[k].tag]

\* the nodes on the page, at any depth, that carry the nodes of child elements
Parents == {n \in AllNodes(page) : n.variant \in {"Container", "List"}}

\* C20: the children of every parsed (and style-resolved) element are the
\* child elements of the source in source order, and the children of every
\* container and list node on the page are, in that same order, the nodes of
\* the children that could be created
C20_ChildOrderPreserved ==
    pc = "done" =>
        /\ \A k \in DOMAIN result.elements :
               [c \in DOMAIN result.elements[k].children |->
                    result.elements[k].children[c].tagName]
                  = Tags(AsHtml(html).tree[k].children)
        /\ \A n \in Parents :
               InSourceOrder(n, ElementAt(result.elements, n.src))

\* a container with a span, a button and an input as the stacked children
\* of its node, in that order
C20_Witness ==
    /\ pc = "done"
    /\ Len(page) = 1
    /\ page[1].variant = "Container"
    /\ page[1].layoutMode = "NONE"
    /\ [k \in DOMAIN page[1].children |-> page[1].children[k].variant]
          = <<"Text", "Button", "Input">>
    /\ Sources(page[1]) = <<<<1, 1>>, <<1, 2>>, <<1, 3>>>>

-----------------------------------------------------------------------------
(* The body of a document *)

\* the document as HTML reads it, whatever the case of its tag names
Read == AsHtml(toLowerCase(html))

\* the body elements at the top of the document
Bodies == {k \in DOMAIN Read.tree : Read.tree[k].tag = <<"body">>}

\* the tags of a forest of parsed elements, in order
TagNames(elements) == [k \in DOMAIN elements |-> elements[k].tagName]

\* the one body of the document: one opening and one closing body tag
OneBody == Cardinality({k \in DOMAIN html : LowerTok(html[k]) = "body"}) = 2

\* the body tag does not occur, neither opening nor closing
Bodiless == \A k \in DOMAIN html : LowerTok(html[k]) # "body"

C21_WitnessInner ==
    /\ pc = "scanned"
    /\ html = Joined(<<5, 3, 4, 2>>)
    /\ TagNames(parsedElements) = <<<<"p">>>>

-----------------------------------------------------------------------------
(* The messages to the UI *)

\* where the terminal messages stand among the messages posted
Terminals ==
    {k \in DOMAIN posted : posted[k].type \in {"html-parse-complete", "html-parse-error"}}

\* C22: a parse-html message is answered by exactly one terminal message,
\* html-parse-complete or html-parse-error, with no message posted after it,
\* whether the document is empty, the parser finds nothing, or node creation
\* throws for any of the elements; before the answer, and for a cancel,
\* there is no terminal message
C22_OneTerminalMessage ==
    /\ pc = "done" => Terminals = {Len(posted)}
    /\ pc # "done" => Terminals = {}

\* node creation threw for an element, the other was created: the request
\* ends with html-parse-complete, after the progress messages
C22_Witness ==
    /\ pc = "done"
    /\ throwing # {}
    /\ Len(posted) > 3
    /\ posted[Len(posted)].type = "html-parse-complete"
    /\ \A k \in 1..(Len(posted) - 1) : posted[k].type = "html-parse-progress"

-----------------------------------------------------------------------------
(* The analyzer across requests *)

\* the cache entry the request handled last was answered from
EntryUsed == aiAnalyzer.cache[generateCacheKey(html, preferencesOf(aiSettings)).value]

\* C23: an analysis is returned from the cache only to a request whose
\* document prefix (the first 1000 characters) and user preferences both
\* equal those of the request that stored the entry
C23_CacheEntryOfSameRequest ==
    designAnalysis.from = "cache" =>
        /\ substring(EntryUsed.htmlContent, 1000) = substring(html, 1000)
        /\ EntryUsed.userPreferences = preferencesOf(aiSettings)

\* the settings enable AI: enabled, with an API key and a model that is not
\* the local one
EnablesAI(settings) ==
    /\ settings.present
    /\ settings.enabled
    /\ settings.apiKey # ""
    /\ settings.model # "local"

\* C24: the external API is called only for a request whose own settings
\* enable AI, whatever requests came before
C24_ExternalCallOnlyWhenEnabled ==
    \A request \in aiAnalyzer.called : EnablesAI(request.aiSettings)

-----------------------------------------------------------------------------
(* The layout groups and the frames on the page *)

\* the selectors of the members of the flex groups among the groups
flexSelectors(groups) ==
    groupedSelectors(SelectSeq(groups, LAMBDA g : g.layout = "flex"))

\* the top-level element of a node of the page is a member of no flex group,
\* whichever analysis parseHtml worked with
Ungrouped(node) ==
    \A optimizedLayout \in Layouts(result.elements) :
        generateSelector(ElementOf(node), node.src[1] - 1)
            \notin flexSelectors(optimizedLayout.groups)

\* C25: a top-level display: flex element that is a member of no flex group
\* is on the page with the direction and the gap of its own CSS, whatever
\* other elements the document holds
C25_UngroupedFlexKeepsOwnLayout ==
    pc = "done" =>
        \A k \in DOMAIN page :
            (/\ page[k].type = "FRAME"
             /\ Style(ElementOf(page[k]), <<"display">>) = <<"flex">>
             /\ Ungrouped(page[k]))
                => /\ page[k].layoutMode = flexLayout(ElementOf(page[k])).layoutMode
                   /\ page[k].itemSpacing = flexLayout(ElementOf(page[k])).itemSpacing

-----------------------------------------------------------------------------
(* The layout policy of a container *)

\* the nodes createFigmaNodeFromElement returns for the top-level elements
Created ==
    NonNull([k \in DOMAIN result.elements |->
                createFigmaNodeFromElement(result.elements[k], <<k>>, throwing)])

\* the containers the node factory emitted, at any depth
Containers == {n \in AllNodes(Created) : n.variant = "Container"}

\* the children of a node were given a place by hand
Positioned(node) == \A k \in DOMAIN node.children : "y" \in DOMAIN node.children[k]

\* no child of a node was given a place
AutoLaidOut(node) == \A k \in DOMAIN node.children : "y" \notin DOMAIN node.children[k]

UniformPadding(node, padding) ==
    /\ node.paddingTop = padding /\ node.paddingRight = padding
    /\ node.paddingBottom = padding /\ node.paddingLeft = padding

FlexPolicy(node) == node.layoutMode \in {"HORIZONTAL", "VERTICAL"} /\ AutoLaidOut(node)

BlockPolicy(node) ==
    /\ node.layoutMode = "VERTICAL"
    /\ node.itemSpacing = Px(16)
    /\ UniformPadding(node, Px(20))
    /\ AutoLaidOut(node)

ManualPolicy(node) == node.layoutMode = "NONE" /\ Positioned(node)

\* C26: a container the node factory emits is a flex container if the
\* display of its element is flex; a block container (vertical, gap 16,
\* padding 20 on all sides) if it is not and the tag is div, section or
\* article; positioned by hand in every other case; the nested containers on
\* the page are as the factory emitted them
C26_OneLayoutPolicy ==
    pc = "done" =>
        /\ \A n \in Containers :
              IF Style(ElementAt(result.elements, n.src), <<"display">>) = <<"flex">>
              THEN FlexPolicy(n)
                      /\ n.layoutMode = "VERTICAL"
                            <=> Style(ElementAt(result.elements, n.src),
                                      <<"flex", "-", "direction">>)
                                   \in {<<"column">>, <<"column", "-", "reverse">>}
              ELSE IF ElementAt(result.elements, n.src).tagName
                         \in {<<"div">>, <<"section">>, <<"article">>}
              THEN BlockPolicy(n)
              ELSE ManualPolicy(n)
        /\ Len(page) = Len(Created)
        /\ \A k \in DOMAIN page : page[k].children = Created[k].children

\* <article><nav><p>a</p></nav><aside style="display:flex">b</aside></article>:
\* a block container on the page that holds a container with a child placed
\* by hand and a flex container
C26_Witness ==
    /\ pc = "done"
    /\ html = TopFrags[5]
    /\ Len(page) = 1
    /\ Len(page[1].children) = 2
    /\ ManualPolicy(page[1].children[1])
    /\ Len(page[1].children[1].children) = 1
    /\ page[1].children[1].children[1].y = Px(20)
    /\ FlexPolicy(page[1].children[2])
    /\ page[1].layoutMode = "VERTICAL"
    /\ page[1].paddingTop = Px(20)

-----------------------------------------------------------------------------
(* The children of a container positioned by hand *)

\* the containers on the page, at any depth, whose children are positioned
\* by hand
Manual == {n \in AllNodes(page) : n.variant = "Container" /\ n.layoutMode = "NONE"}

\* C27: the children of a manually positioned container are the nodes of
\* the child elements that could be created, in source order, each at
\* x = 20, the first at y = 20 and every next one 16 below the bottom edge of
\* the one before it
C27_ManualChildrenStacked ==
    pc = "done" =>
        \A n \in Manual :
            /\ Sources(n) = Creatable(ElementAt(result.elements, n.src), n.src, 1)
            /\ \A k \in DOMAIN n.children :
                  /\ n.children[k].x = Px(20)
                  /\ n.children[k].y =
                        IF k = 1 THEN Px(20)
                        ELSE n.children[k - 1].y + n.children[k - 1].height + Px(16)

\* <header><button>Go</button><span>Label</span><input /></header> when the
\* span cannot be created: the button at y = 20 and the input right after it
C27_Witness ==
    /\ pc = "done"
    /\ html = Element("header", Empty, Children(<<1, 2, 3>>))
    /\ throwing = {<<1, 2>>}
    /\ Len(page) = 1
    /\ page[1] \in Manual
    /\ Sources(page[1]) = << <<1, 1>>, <<1, 3>> >>
    /\ page[1].children[1].y = Px(20)
    /\ page[1].children[2].y = Px(20) + page[1].children[1].height + Px(16)
    /\ page[1].children[2].x = Px(20)

-----------------------------------------------------------------------------
(* The rule table of a document that repeats a selector *)

\* the last of the rules rs with the selector
LastRule(rs, selector) ==
    RuleTexts[rs[CHOOSE k \in DOMAIN rs :
                    /\ RuleTexts[rs[k]].selector = selector
                    /\ \A j \in DOMAIN rs : RuleTexts[rs[j]].selector = selector => j <= k]]

SelectorsOf(rs) == {RuleTexts[rs[k]].selector : k \in DOMAIN rs}

-----------------------------------------------------------------------------
(* The shadow of a box-shadow value *)

\* the values of the single-shadow shape with a color that resolves, each
\* with the shadow it stands for
ShadowOfShape(x, y, blur, color) ==
    DropShadow(parseColor(color),
               parseIntDigits(SubSeq(x, 1, Len(x) - 2)),
               parseIntDigits(SubSeq(y, 1, Len(y) - 2)),
               parseIntDigits(SubSeq(blur, 1, Len(blur) - 2)))

Shaped ==
    {[value |-> SingleShadow(x, y, <<"4", "p", "x">>, color),
      shadow |-> ShadowOfShape(x, y, <<"4", "p", "x">>, color)] :
        x \in Lengths, y \in Lengths, color \in {c \in ShadowColors : ~parseColor(c).isNull}}

\* C29: parseBoxShadow returns a shadow exactly for the values
\* <offsetX>px <offsetY>px <blur>px <color> with a color that resolves, and
\* it is the shadow of these offsets, this blur and this color with the
\* alpha 0.1; a value with a spread, a second shadow, the inset keyword or a
\* color that does not resolve has no shadow
C29_ShadowOnlyForSingleShape ==
    pc = "shadowed" =>
        IF \E shaped \in Shaped : shaped.value = text
        THEN \A shaped \in Shaped : shaped.value = text => parsed = shaped.shadow
        ELSE parsed = Null

-----------------------------------------------------------------------------
(* The attribute map of an element *)

\* the attribute names of the tag with the attributes as
NamesOf(as) == {AttrTexts[as[k]].name : k \in DOMAIN as}

\* C30: the attribute map of an element has a key only for a name that is
\* the whole name of an attribute of its tag, and the element has the style
\* of the #x rule, or of the .a rule, only if the tag has an attribute named
\* id, or class
C30_KeysAreWholeAttributeNames ==
    pc = "styled" =>
        \A as \in AttrSeqs :
            html = AttrDoc(as) =>
                /\ Len(parsedElements) = 1
                /\ DOMAIN parsedElements[1].attributes \subseteq NamesOf(as)
                /\ <<"color">> \in DOMAIN parsedElements[1].styles => <<"id">> \in NamesOf(as)
                /\ <<"width">> \in DOMAIN parsedElements[1].styles => <<"class">> \in NamesOf(as)

====
